---- MODULE Spec2Model ----
(***************************************************************************)
(* The per-request anonymization pipeline of the forloop network layer:    *)
(* AnonymizedNetwork::request (network/src/lib.rs), CircuitManager and     *)
(* Circuit (network/src/circuit.rs), TorController                         *)
(* (network/src/tor_integration.rs), HeaderSynthesizer                     *)
(* (network/src/headers.rs), TrafficShaper (network/src/traffic_shaper.rs) *)
(* and TlsFingerprintNormalizer (network/src/tls_fingerprint.rs).          *)
(*                                                                         *)
(* Each request() invocation is a task; one action is the code a task runs *)
(* from one await to the next.  Strings the code inspects character by     *)
(* character (URLs) are sequences of one-character strings.                *)
(***************************************************************************)
EXTENDS Integers, Sequences, FiniteSets, TLC

(***************************************************************************)
(* Bounds of the model.                                                    *)
(***************************************************************************)
\* Number of request() invocations on the one AnonymizedNetwork instance.
NumReq == 2
\* Largest reading of the system clock (SystemTime::now(), in nanoseconds).
MaxClock == 1
\* The longest header list a function is applied to on its own.
MaxHeaders == 2
\* The longest header list normalize_header_order is applied to.
MaxSortLen == 3
\* The largest jitter bound, in milliseconds, apply_jitter is called with.
MaxJitterMs == 2
\* The largest padding size pad_request draws.
MaxPadding == 2
\* The largest target size, besides the default, a PaddingGenerator is built
\* with, and the longest data it pads for every content.
MaxTarget == 3

Reqs == 1..NumReq
\* The task that calls CircuitManager::close_all.
Closer == NumReq + 1
\* A second task that calls close_all on the same manager.
SecondCloser == NumReq + 2

(***************************************************************************)
(* Strings as character sequences.                                         *)
(***************************************************************************)
StartsWith(s, p) == Len(s) >= Len(p) /\ SubSeq(s, 1, Len(p)) = p

\* Index of the first occurrence of character c in s, 0 when there is none.
Find(s, c) ==
    IF \E i \in 1..Len(s) : s[i] = c
    THEN CHOOSE i \in 1..Len(s) : s[i] = c /\ \A j \in 1..(i - 1) : s[j] # c
    ELSE 0

\* Index of the last occurrence of character c in s, 0 when there is none.
RFind(s, c) ==
    IF \E i \in 1..Len(s) : s[i] = c
    THEN CHOOSE i \in 1..Len(s) : s[i] = c /\ \A j \in (i + 1)..Len(s) : s[j] # c
    ELSE 0

HttpsScheme == <<"h", "t", "t", "p", "s", ":", "/", "/">>
HttpScheme == <<"h", "t", "t", "p", ":", "/", "/">>

DigitValue(c) ==
    CASE c = "0" -> 0 [] c = "1" -> 1 [] c = "2" -> 2 [] c = "3" -> 3
      [] c = "4" -> 4 [] c = "5" -> 5 [] c = "6" -> 6 [] c = "7" -> 7
      [] c = "8" -> 8 [] c = "9" -> 9 [] OTHER -> -1

U16Max == 65535

\* Value of a digit string, saturating just above u16::MAX (the code's checked
\* arithmetic fails there); -1 when a character is not a digit.
RECURSIVE DigitsValue(_)
DigitsValue(s) ==
    IF s = <<>> THEN 0
    ELSE LET hi == DigitsValue(SubSeq(s, 1, Len(s) - 1))
             d == DigitValue(s[Len(s)])
         IN IF hi < 0 \/ d < 0 THEN -1
            ELSE IF hi * 10 + d > U16Max THEN U16Max + 1
            ELSE hi * 10 + d

\* str::parse::<u16>: an optional leading '+', then at least one digit, value
\* at most u16::MAX.  -1 stands for Err.
ParseU16(s) ==
    LET digits == IF s # <<>> /\ s[1] = "+" THEN SubSeq(s, 2, Len(s)) ELSE s
        v == DigitsValue(digits)
    IN IF digits = <<>> \/ v < 0 \/ v > U16Max THEN -1 ELSE v

(***************************************************************************)
(* NetworkError kinds and results.                                         *)
(***************************************************************************)
ErrorKinds ==
    {"TorConnectionFailed", "CircuitCreationFailed", "RequestFailed", "Timeout",
     "TlsError", "DnsError", "InvalidUrl", "ProtocolNotSupported"}

NoHeaders == <<>>
NoBody == <<"None">>
SomeBody(bytes) == <<"Some", bytes>>

Pending == [kind |-> "Pending", status |-> 0, headers |-> NoHeaders, body |-> <<>>,
            circuit_id |-> <<>>]
Err(k) == [kind |-> k, status |-> 0, headers |-> NoHeaders, body |-> <<>>,
           circuit_id |-> <<>>]
OkResponse(st, hs, b, id) ==
    [kind |-> "Ok", status |-> st, headers |-> hs, body |-> b, circuit_id |-> id]

(***************************************************************************)
(* parse_url (circuit.rs).                                                 *)
(***************************************************************************)
DefaultPort == 443

\* parse_url splitting host and port at the first ':' of the authority.
ParseUrl_FirstColon(u) ==
    IF ~StartsWith(u, HttpsScheme) THEN [ok |-> FALSE, host |-> <<>>, port |-> 0, path |-> <<>>]
    ELSE
      LET without_scheme == SubSeq(u, Len(HttpsScheme) + 1, Len(u))
          slash == Find(without_scheme, "/")
          host_port == IF slash > 0 THEN SubSeq(without_scheme, 1, slash - 1)
                       ELSE without_scheme
          path == IF slash > 0 THEN SubSeq(without_scheme, slash, Len(without_scheme))
                  ELSE <<"/">>
          colon == Find(host_port, ":")
          port == IF colon > 0
                  THEN ParseU16(SubSeq(host_port, colon + 1, Len(host_port)))
                  ELSE DefaultPort
          host == IF colon > 0 THEN SubSeq(host_port, 1, colon - 1) ELSE host_port
      IN IF port < 0 THEN [ok |-> FALSE, host |-> <<>>, port |-> 0, path |-> <<>>]
         ELSE [ok |-> TRUE, host |-> host, port |-> port, path |-> path]

ParseUrl(u) ==
    IF ~StartsWith(u, HttpsScheme) THEN [ok |-> FALSE, host |-> <<>>, port |-> 0, path |-> <<>>]
    ELSE
      LET without_scheme == SubSeq(u, Len(HttpsScheme) + 1, Len(u))
          slash == Find(without_scheme, "/")
          host_port == IF slash > 0 THEN SubSeq(without_scheme, 1, slash - 1)
                       ELSE without_scheme
          path == IF slash > 0 THEN SubSeq(without_scheme, slash, Len(without_scheme))
                  ELSE <<"/">>
          colon == RFind(host_port, ":")
          port == IF colon > 0
                  THEN ParseU16(SubSeq(host_port, colon + 1, Len(host_port)))
                  ELSE DefaultPort
          host == IF colon > 0 THEN SubSeq(host_port, 1, colon - 1) ELSE host_port
      IN IF port < 0 THEN [ok |-> FALSE, host |-> <<>>, port |-> 0, path |-> <<>>]
         ELSE [ok |-> TRUE, host |-> host, port |-> port, path |-> path]

(***************************************************************************)
(* TorController (tor_integration.rs).                                     *)
(***************************************************************************)
HexChars == <<"0", "1", "2", "3", "4", "5", "6", "7",
              "8", "9", "a", "b", "c", "d", "e", "f">>

\* The low n hexadecimal digits of t, most significant first.
RECURSIVE HexDigits(_, _)
HexDigits(t, n) ==
    IF n = 0 THEN <<>> ELSE Append(HexDigits(t \div 16, n - 1), HexChars[(t % 16) + 1])

CircuitIdWidth == 16

\* format!("circuit_{:016x}", timestamp): the prefix, then the timestamp in
\* hexadecimal, zero-padded to 16 digits.
GenerateCircuitId(timestamp) == <<"circuit_">> \o HexDigits(timestamp, CircuitIdWidth)

NoCircuit == <<>>

\* SystemTime::now(): what the clock may read when the last reading was
\* `last`.  No time need have passed on the clock between two readings.
ClockReadings(last) == last..MaxClock

\* What the control port may answer to new_circuit besides Ok(id).
ControllerErrors == {"CircuitCreationFailed"}

(***************************************************************************)
(* HeaderSynthesizer (headers.rs).                                         *)
(***************************************************************************)
USER_AGENTS ==
    <<"Mozilla/5.0 (Windows NT 10.0; rv:115.0) Gecko/20100101 Firefox/115.0",
      "Mozilla/5.0 (X11; Linux x86_64; rv:115.0) Gecko/20100101 Firefox/115.0",
      "Mozilla/5.0 (Macintosh; Intel Mac OS X 10.15; rv:115.0) Gecko/20100101 Firefox/115.0">>

ACCEPT_LANGUAGES == <<"en-US,en;q=0.5">>
ACCEPT_HTML == "text/html,application/xhtml+xml,application/xml;q=0.9,image/avif,image/webp,*/*;q=0.8"
ACCEPT_IMAGE == "image/avif,image/webp,*/*"
ACCEPT_ENCODING == "gzip, deflate, br"

\* The user-agent strings cut into pieces at the words the tests look for;
\* the pieces of a string, put together, are the string.
Pieces(ua) ==
    CASE ua = USER_AGENTS[1] ->
           <<"Mozilla/5.0 (", "Windows", " NT 10.0; rv:115.0) Gecko/20100101 ",
             "Firefox", "/115.0">>
      [] ua = USER_AGENTS[2] ->
           <<"Mozilla/5.0 (X11; ", "Linux", " x86_64; rv:115.0) Gecko/20100101 ",
             "Firefox", "/115.0">>
      [] ua = USER_AGENTS[3] ->
           <<"Mozilla/5.0 (", "Macintosh", "; Intel ", "Mac OS X",
             " 10.15; rv:115.0) Gecko/20100101 ", "Firefox", "/115.0">>
      [] OTHER -> <<ua>>

\* str::contains for a word the strings are cut at.
Contains(ua, word) == \E i \in 1..Len(Pieces(ua)) : Pieces(ua)[i] = word

\* generate() that also rotates the language with the user agent.
Generate_RotatesLanguage(choice) ==
    [user_agent |-> USER_AGENTS[choice],
     accept |-> ACCEPT_HTML,
     accept_language |-> IF choice = 1 THEN ACCEPT_LANGUAGES[1] ELSE "en-GB,en;q=0.5",
     accept_encoding |-> ACCEPT_ENCODING]

\* generate(): `choice` is the index the random generator picks.
Generate(choice) ==
    [user_agent |-> USER_AGENTS[choice],
     accept |-> ACCEPT_HTML,
     accept_language |-> ACCEPT_LANGUAGES[1],
     accept_encoding |-> ACCEPT_ENCODING]

\* generate_for_image(): generate() with the accept field replaced.
GenerateForImage(choice) == [Generate(choice) EXCEPT !.accept = ACCEPT_IMAGE]

NoSynthetic == [user_agent |-> "", accept |-> "", accept_language |-> "",
                accept_encoding |-> ""]

\* to_header_list that also announces Do-Not-Track, as a browser might.
ToHeaderList_WithDnt(h) ==
    << <<"User-Agent", h.user_agent>>,
       <<"Accept", h.accept>>,
       <<"Accept-Language", h.accept_language>>,
       <<"Accept-Encoding", h.accept_encoding>>,
       <<"DNT", "1">>,
       <<"Connection", "keep-alive">>,
       <<"Upgrade-Insecure-Requests", "1">>,
       <<"Sec-Fetch-Dest", "document">>,
       <<"Sec-Fetch-Mode", "navigate">>,
       <<"Sec-Fetch-Site", "none">>,
       <<"Sec-Fetch-User", "?1">> >>

ToHeaderList(h) ==
    << <<"User-Agent", h.user_agent>>,
       <<"Accept", h.accept>>,
       <<"Accept-Language", h.accept_language>>,
       <<"Accept-Encoding", h.accept_encoding>>,
       <<"Connection", "keep-alive">>,
       <<"Upgrade-Insecure-Requests", "1">>,
       <<"Sec-Fetch-Dest", "document">>,
       <<"Sec-Fetch-Mode", "navigate">>,
       <<"Sec-Fetch-Site", "none">>,
       <<"Sec-Fetch-User", "?1">> >>

\* str::to_lowercase on the header names that occur in the model.
ToLowercase(name) ==
    CASE name = "User-Agent" -> "user-agent"
      [] name = "Accept" -> "accept"
      [] name = "Accept-Language" -> "accept-language"
      [] name = "Accept-Encoding" -> "accept-encoding"
      [] name = "Connection" -> "connection"
      [] name = "Upgrade-Insecure-Requests" -> "upgrade-insecure-requests"
      [] name = "Sec-Fetch-Dest" -> "sec-fetch-dest"
      [] name = "Sec-Fetch-Mode" -> "sec-fetch-mode"
      [] name = "Sec-Fetch-Site" -> "sec-fetch-site"
      [] name = "Sec-Fetch-User" -> "sec-fetch-user"
      [] name = "Set-Cookie" -> "set-cookie"
      [] name = "ETag" -> "etag"
      [] name = "Content-Type" -> "content-type"
      [] name = "X-Cache" -> "x-cache"
      [] name = "Vary" -> "vary"
      [] name = "CF-RAY" -> "cf-ray"
      [] name = "Cookie" -> "cookie"
      [] name = "Referer" -> "referer"
      [] name = "DNT" -> "dnt"
      [] name = "X-Real-IP" -> "x-real-ip"
      [] name = "Host" -> "host"
      [] name = "Content-Length" -> "content-length"
      [] name = "X-A" -> "x-a"
      [] OTHER -> name

\* normalize_header_order: the canonical order of header names.
HeaderOrder ==
    <<"host", "user-agent", "accept", "accept-language", "accept-encoding",
      "connection", "upgrade-insecure-requests", "sec-fetch-dest",
      "sec-fetch-mode", "sec-fetch-site", "sec-fetch-user", "content-type",
      "content-length">>

\* unwrap_or(usize::MAX): the position of a name the table lacks, above every
\* index of the table.
PositionOfAbsent == Len(HeaderOrder) + 1

\* order.iter().position(|&x| x == lower).unwrap_or(usize::MAX), counted
\* from 1.
HeaderPosition(name) ==
    LET lower == ToLowercase(name)
        found == {i \in 1..Len(HeaderOrder) : HeaderOrder[i] = lower}
    IN IF found = {} THEN PositionOfAbsent
       ELSE CHOOSE i \in found : \A j \in found : i <= j

\* One step of a sort that puts an entry before the entries comparing
\* equal to it.
InsertBeforeEqual(sorted, h) ==
    LET before == {i \in 0..Len(sorted) :
                     \A k \in 1..i : HeaderPosition(sorted[k][1]) < HeaderPosition(h[1])}
        at == CHOOSE i \in before : \A j \in before : j <= i
    IN SubSeq(sorted, 1, at) \o <<h>> \o SubSeq(sorted, at + 1, Len(sorted))

\* One step of the stable sort: the entry goes after every entry that does
\* not compare greater than it.
InsertAfterEqual(sorted, h) ==
    LET before == {i \in 0..Len(sorted) :
                     \A k \in 1..i : HeaderPosition(sorted[k][1]) <= HeaderPosition(h[1])}
        at == CHOOSE i \in before : \A j \in before : j <= i
    IN SubSeq(sorted, 1, at) \o <<h>> \o SubSeq(sorted, at + 1, Len(sorted))

RECURSIVE NormalizeHeaderOrder_Unstable(_)
NormalizeHeaderOrder_Unstable(hs) ==
    IF hs = <<>> THEN <<>>
    ELSE InsertBeforeEqual(NormalizeHeaderOrder_Unstable(SubSeq(hs, 1, Len(hs) - 1)),
                           hs[Len(hs)])

\* normalize_header_order: headers.sort_by(...) on the two positions; sort_by
\* is a stable sort.
RECURSIVE NormalizeHeaderOrder(_)
NormalizeHeaderOrder(hs) ==
    IF hs = <<>> THEN <<>>
    ELSE InsertAfterEqual(NormalizeHeaderOrder(SubSeq(hs, 1, Len(hs) - 1)),
                          hs[Len(hs)])

\* The names strip_dangerous_headers removes.
DangerousHeaders ==
    {"cookie", "authorization", "proxy-authorization", "x-forwarded-for", "x-real-ip",
     "x-client-ip", "forwarded", "via", "x-request-id", "x-correlation-id", "dnt",
     "referer", "origin"}

\* StripDangerousHeaders removing only the first entry it finds.
StripDangerousHeaders_FirstOnly(hs) ==
    LET hits == {i \in 1..Len(hs) : ToLowercase(hs[i][1]) \in DangerousHeaders}
    IN IF hits = {} THEN hs
       ELSE LET first == CHOOSE i \in hits : \A j \in hits : i <= j
            IN SubSeq(hs, 1, first - 1) \o SubSeq(hs, first + 1, Len(hs))

\* StripDangerousHeaders with "via" and "origin" let through.
StripDangerousHeaders_Shorter(hs) ==
    SelectSeq(hs, LAMBDA h : ToLowercase(h[1]) \notin DangerousHeaders \ {"via", "origin"})

\* strip_dangerous_headers: headers.retain(..) on the lowercased name.
StripDangerousHeaders(hs) ==
    SelectSeq(hs, LAMBDA h : ToLowercase(h[1]) \notin DangerousHeaders)

(***************************************************************************)
(* TlsFingerprintNormalizer (tls_fingerprint.rs).                          *)
(***************************************************************************)
TorBrowserConfig ==
    [cipher_suites |-> <<4865, 4867, 4866, 49195, 49199, 49196, 49200, 52393, 52392, 49171, 49172, 156, 157, 47, 53>>,
     extensions |-> <<0, 23, 65281, 10, 11, 35, 16, 5, 34, 51, 43, 13, 28, 27, 41>>,
     supported_groups |-> <<29, 23, 24, 25, 256, 257>>,
     signature_algorithms |-> <<1027, 1283, 1539, 2052, 2053, 2054, 1025, 1281, 1537>>,
     alpn_protocols |-> <<"h2", "http/1.1">>,
     min_version |-> "Tls12",
     max_version |-> "Tls13"]

\* create_config offering TLS 1.3 only and its cipher suites in another order.
CreateConfig_Reordered ==
    [TorBrowserConfig EXCEPT
        !.cipher_suites = <<4866, 4865>> \o SubSeq(@, 3, Len(@)),
        !.min_version = "Tls13"]

\* create_config(): Ok(self.config.clone()).
CreateConfig == TorBrowserConfig

(***************************************************************************)
(* TrafficShaper (traffic_shaper.rs).                                      *)
(***************************************************************************)
\* The values gen_range(min..=max) may return.
GenRange(min, max) == min..max

\* pad_request appending the padding it drew to a body that is not empty.
PadRequest_Appends(bytes, padding_size) ==
    IF bytes = <<>> THEN bytes ELSE bytes \o [i \in 1..padding_size |-> 0]

\* pad_request: the drawn padding size is only traced; the body is returned
\* as it came.
PadRequest(bytes, padding_size) == bytes

\* pad_request of a TrafficShaper::new(min_padding, max_padding, ..):
\* <<whether the call panicked, the bytes returned>>.  gen_range is called
\* first, whatever the body, and panics on an empty range.
PadRequestCall(min_padding, max_padding, bytes) ==
    IF min_padding > max_padding THEN <<TRUE, <<>>>>
    ELSE <<FALSE, PadRequest(bytes, min_padding)>>

\* apply_jitter: the sleep it issues for the drawn jitter_ms, 0 for none.
JitterSleepMs(max_jitter_ms, jitter_ms) ==
    IF max_jitter_ms = 0 THEN 0 ELSE IF jitter_ms > 0 THEN jitter_ms ELSE 0

\* What one call of apply_jitter did: the sleeps it issued, in order, and
\* whether it panicked.
Slept(sleeps) == [sleeps |-> sleeps, panicked |-> FALSE]
RangePanic == [sleeps |-> <<>>, panicked |-> TRUE]

\* apply_jitter sleeping for whatever was drawn, zero included.
ApplyJitter_SleepsZero(min_jitter_ms, max_jitter_ms, jitter_ms) ==
    IF max_jitter_ms = 0 THEN Slept(<<>>)
    ELSE IF min_jitter_ms > max_jitter_ms THEN RangePanic
    ELSE Slept(<<jitter_ms>>)

\* apply_jitter and apply_jitter_sync (the same body, one sleeping on the
\* runtime, the other on the thread): jitter_ms is what gen_range draws;
\* gen_range panics on an empty range.
ApplyJitter(min_jitter_ms, max_jitter_ms, jitter_ms) ==
    IF max_jitter_ms = 0 THEN Slept(<<>>)
    ELSE IF min_jitter_ms > max_jitter_ms THEN RangePanic
    ELSE IF jitter_ms > 0 THEN Slept(<<jitter_ms>>)
    ELSE Slept(<<>>)

(***************************************************************************)
(* PaddingGenerator (traffic_shaper.rs).  random is the bytes rng.gen()    *)
(* hands out, in the order it hands them out.                              *)
(***************************************************************************)
DefaultTargetSize == 512

\* generate() returning a full cell of padding whenever any is needed.
PaddingGenerate_FullCell(target_size, current_size, random) ==
    IF current_size >= target_size THEN <<>>
    ELSE SubSeq(random, 1, target_size)

\* generate(): (0..padding_needed).map(|_| rng.gen()).collect().
PaddingGenerate(target_size, current_size, random) ==
    IF current_size >= target_size THEN <<>>
    ELSE LET padding_needed == target_size - current_size
         IN SubSeq(random, 1, padding_needed)

\* pad(): data.to_vec() extended by generate(data.len()).
PaddingPad(target_size, data, random) ==
    data \o PaddingGenerate(target_size, Len(data), random)

(***************************************************************************)
(* normalize_size (traffic_shaper.rs).  A usize is written <<high, low>>,  *)
(* standing for high * 65536 + low with low < 65536, so that the values    *)
(* next to usize::MAX can be written; the width is that of a build for a   *)
(* 32-bit target, the arithmetic being the same in a 64-bit build with a   *)
(* longer high part.                                                       *)
(***************************************************************************)
UsizeBits == 32
BucketStep == 65536
\* The number of values of the high part.
HighValues == 2^(UsizeBits - 16)
UsizeMax == <<HighValues - 1, BucketStep - 1>>

Usize(n) == <<n \div BucketStep, n % BucketStep>>

BUCKETS == <<512, 1024, 2048, 4096, 8192, 16384, 32768, 65536>>

\* size <= bucket on usize values.
UsizeLeq(a, b) == a[1] < b[1] \/ (a[1] = b[1] /\ a[2] <= b[2])

\* What a call leaves: a value, or the panic of an arithmetic overflow in a
\* build with overflow checks.
Returned(v) == [panicked |-> FALSE, value |-> v]
Panicked == [panicked |-> TRUE, value |-> <<0, 0>>]

\* ((size + 65535) / 65536) * 65536 in a usize.  The sum passes usize::MAX
\* for the last 65535 values: it panics where overflow checks are compiled
\* in (the debug profile) and wraps where they are not (the release
\* profile).  The quotient is below HighValues, so the product fits.
RoundUpToStep(size, overflow_checks) ==
    LET low_sum == size[2] + (BucketStep - 1)
        high_sum == size[1] + (low_sum \div BucketStep)
        quotient == high_sum % HighValues
    IN IF high_sum >= HighValues /\ overflow_checks THEN Panicked
       ELSE Returned(<<quotient, 0>>)

\* normalize_size: the first bucket the size fits in, else the size rounded
\* up to a multiple of 65536.
NormalizeSize(size, overflow_checks) ==
    LET fits == {i \in 1..Len(BUCKETS) : UsizeLeq(size, Usize(BUCKETS[i]))}
    IN IF fits # {}
       THEN Returned(Usize(BUCKETS[CHOOSE i \in fits : \A j \in fits : i <= j]))
       ELSE RoundUpToStep(size, overflow_checks)

(***************************************************************************)
(* AnonymizedNetwork (lib.rs): response sanitization.                      *)
(***************************************************************************)
ResponseTrackingHeaders ==
    {"set-cookie", "set-cookie2", "etag", "last-modified", "x-request-id",
     "x-correlation-id", "x-amzn-requestid", "cf-ray", "x-cache", "x-served-by",
     "x-timer", "x-trace-id"}

\* SanitizeResponseHeaders comparing the names as they are written.
SanitizeResponseHeaders_CaseSensitive(hs) ==
    SelectSeq(hs, LAMBDA h : h[1] \notin ResponseTrackingHeaders)

SanitizeResponseHeaders(hs) ==
    SelectSeq(hs, LAMBDA h : ToLowercase(h[1]) \notin ResponseTrackingHeaders)

(***************************************************************************)
(* Circuit (circuit.rs): the request handed to the transport.              *)
(***************************************************************************)
NoWire == [method |-> "", path |-> <<>>, host |-> <<>>, headers |-> NoHeaders,
           has_body |-> FALSE, content_length |-> 0, body |-> <<>>, tls |-> <<>>]

\* build_http_request: request line, Host, the headers in the order given,
\* Content-Length when there is a body, then the body bytes; tls is the
\* TlsConfig execute_request is given with it.
BuildHttpRequest(method, parsed, hs, b, tls_config) ==
    [method |-> method, path |-> parsed.path, host |-> parsed.host, headers |-> hs,
     has_body |-> b # NoBody,
     content_length |-> IF b # NoBody THEN Len(b[2]) ELSE 0,
     body |-> IF b # NoBody THEN b[2] ELSE <<>>,
     tls |-> <<tls_config>>]

\* The response execute_request builds.
PlaceholderResponse ==
    [status |-> 200, headers |-> << <<"content-type", "text/html">> >>, body |-> <<>>]

\* A response of a server, as the transport this placeholder stands for
\* would hand it over.
ServerResponse ==
    [status |-> 404,
     headers |-> << <<"Set-Cookie", "id=1">>, <<"Vary", "Accept">>,
                    <<"Content-Type", "text/html">>, <<"ETag", "v1">>,
                    <<"Vary", "Origin">> >>,
     body |-> <<104>>]

RawResponses == {PlaceholderResponse, ServerResponse}

\* No response has arrived.
NoResponse == [status |-> 0, headers |-> NoHeaders, body |-> <<>>]

\* The failures of the round trip other than the timeout.
TransportErrors == {"RequestFailed", "TlsError", "DnsError"}

\* ElapsedError with the elapsed timeout reported as a generic failure.
ElapsedError_AsRequestFailed == Err("RequestFailed")

\* tokio::time::timeout elapsed: .map_err(|_| NetworkError::Timeout).
ElapsedError == Err("Timeout")

\* impl Drop for Circuit: it only logs; no close_circuit call is made.
DropCircuit(calls, id) == calls

(***************************************************************************)
(* Inputs.                                                                 *)
(***************************************************************************)
UrlOk == HttpsScheme \o <<"a", "/", "p">>
UrlBadPort == HttpsScheme \o <<"a", ":", "x">>
UrlHttp == HttpScheme \o <<"a">>
Urls == {UrlOk, UrlBadPort, UrlHttp}

\* URLs handed to parse_url alone: with and without a port and a path, ports
\* at and around u16::MAX, port texts that are no number, a ':' in the path
\* and two in the authority, and URLs that are not https.
ParseUrlInputs ==
    {HttpsScheme \o rest : rest \in
        {<<"a">>, <<"a", "b">>, <<"a", "/">>, <<"a", "/", "p">>,
         <<"a", "/", "p", "/", "q">>,
         <<"a", ":", "8">>, <<"a", ":", "8", "/", "p">>,
         <<"a", ":", "0">>, <<"a", ":", "0", "8">>, <<"a", ":", "+", "8">>,
         <<"a", ":", "8", "4", "4", "3", "/", "p">>,
         <<"a", ":", "6", "5", "5", "3", "5">>,
         <<"a", ":", "6", "5", "5", "3", "6">>,
         <<"a", ":", "9", "9", "9", "9", "9", "9">>,
         <<"a", ":">>, <<"a", ":", "/", "p">>, <<"a", ":", "x">>,
         <<"a", ":", "-", "1">>, <<"a", ":", "+">>, <<"a", ":", "8", "x">>,
         <<"a", ":", "8", ":", "9">>, <<"a", ":", "x", ":", "9", "/", "p">>,
         <<"a", ":", "9", ":", "x">>,
         <<"a", "/", "p", ":", "9">>, <<"a", "/", ":", "x">>,
         <<>>, <<"/">>, <<":", "8">>}}
    \cup {UrlHttp, HttpScheme \o <<"a", ":", "8", "/", "p">>,
          <<"a", "/", "p">>, <<>>, <<"h", "t", "t", "p", "s", ":", "/">>,
          <<"H", "T", "T", "P", "S", ":", "/", "/", "a">>}

Bodies == {NoBody, SomeBody(<<104>>)}

\* Header lists of up to MaxHeaders entries with names from `names`.
HeaderLists(names) ==
    UNION {[1..n -> {<<name, "v">> : name \in names}] : n \in 0..MaxHeaders}

\* Names of response headers: the twelve of sanitize_response_headers, some
\* of them in other letter cases, and names it does not list.
ResponseHeaderNames ==
    ResponseTrackingHeaders
    \cup {"Set-Cookie", "ETag", "X-Cache", "CF-RAY"}
    \cup {"content-type", "Content-Type", "cookie"}

\* Names of request headers: the thirteen of strip_dangerous_headers, some of
\* them in other letter cases, and names it does not list.
RequestHeaderNames ==
    DangerousHeaders
    \cup {"Cookie", "Referer", "DNT", "X-Real-IP"}
    \cup {"User-Agent", "Accept", "accept"}

\* NetworkConfig values handed to AnonymizedNetwork::new.
Configs ==
    {[min_padding_bytes |-> 1, max_padding_bytes |-> 2,
      min_jitter_ms |-> 0, max_jitter_ms |-> 1, new_circuit_per_request |-> TRUE],
     [min_padding_bytes |-> 1, max_padding_bytes |-> 2,
      min_jitter_ms |-> 0, max_jitter_ms |-> 0, new_circuit_per_request |-> FALSE]}

\* What close_circuit may answer; the answer is dropped by `let _ =`.
\* Lists for normalize_header_order: listed names in either letter case,
\* names the table lacks, and names repeated with another value.
SortEntries ==
    {<<"Host", "v">>, <<"User-Agent", "v">>, <<"Accept", "v">>, <<"accept", "w">>,
     <<"Content-Type", "v">>, <<"X-A", "v">>, <<"X-A", "w">>, <<"x-b", "v">>}

SortLists == UNION {[1..n -> SortEntries] : n \in 0..MaxSortLen}

\* Sizes for normalize_size: around every bucket, around the multiples of
\* 65536 that follow, the sizes of the source's test, and the last values a
\* usize holds.
LowSamples ==
    {0, 1, 100, 1000, 34464, BucketStep - 2, BucketStep - 1}
      \cup {BUCKETS[i] : i \in 1..Len(BUCKETS) - 1}
      \cup {BUCKETS[i] + 1 : i \in 1..Len(BUCKETS) - 1}
HighSamples == {0, 1, 2, HighValues - 2, HighValues - 1}
Sizes == HighSamples \X LowSamples

\* The bounds a TrafficShaper may be built with: new() takes any two u64.
JitterBounds == (0..MaxJitterMs) \X (0..MaxJitterMs)

\* What gen_range may hand back for the bounds; with an empty range the
\* call does not return and nothing is drawn.
JitterDraws(min_jitter_ms, max_jitter_ms) ==
    IF min_jitter_ms > max_jitter_ms THEN {0}
    ELSE GenRange(min_jitter_ms, max_jitter_ms)

\* Bodies for pad_request: empty, one byte, two bytes.
PadBodies == {<<>>, <<104>>, <<104, 105>>}

\* What PaddingGenerator is tried on: every target size up to MaxTarget with
\* every data of up to MaxTarget + 1 bytes and every run of random bytes
\* out of two values, and the default target size with data of the lengths
\* of the tests (5, 100, 512, 600) and a run of one random value.
Fill(n, byte) == [i \in 1..n |-> byte]
ByteSeqs(n) == UNION {[1..k -> {0, 255}] : k \in 0..n}
PaddingCases ==
    {<<t, d, r>> : t \in 0..MaxTarget, d \in ByteSeqs(MaxTarget + 1),
                   r \in [1..MaxTarget -> {0, 255}]}
      \cup {<<DefaultTargetSize, Fill(n, 104), Fill(DefaultTargetSize, b)>> :
               n \in {0, 5, 100, 511, 512, 600}, b \in {0, 255}}

\* The padding bounds a TrafficShaper may be built with: new() takes any two
\* usize.
PaddingBounds == (0..MaxPadding) \X (0..MaxPadding)

\* SyntheticHeaders values: the struct's four fields are public strings, so
\* besides what generate() and generate_for_image() build a caller may pass
\* any strings.
SyntheticValues ==
    {Generate(c) : c \in 1..Len(USER_AGENTS)}
      \cup {GenerateForImage(c) : c \in 1..Len(USER_AGENTS)}
      \cup [user_agent : {"", "curl/8.0"},
            accept : {ACCEPT_HTML, "*/*"},
            accept_language : {ACCEPT_LANGUAGES[1], "de"},
            accept_encoding : {ACCEPT_ENCODING, "identity"}]

CloseErrors == {"TorConnectionFailed"}
CloseOutcomes == {"Ok"} \cup CloseErrors

\* No close_all call is running.
NoStart == [tracked |-> <<>>, returned |-> {}, calls |-> 0, taken |-> <<>>]

(***************************************************************************)
(* State.                                                                  *)
(***************************************************************************)
VARIABLES
    config,          \* AnonymizedNetwork.config
    rng,             \* HeaderSynthesizer.rng (the generator inside the Mutex): the
                     \* number of draws made from it
    now,             \* the last reading SystemTime::now() returned
    active_circuits, \* CircuitManager.active_circuits (the Vec inside the Mutex)
    lock,            \* the tasks holding the active_circuits Mutex
    close_calls,     \* the identifiers TorController::close_circuit was called with
    cpc,             \* close_all: where the closing task is
    drained,         \* close_all: the identifiers taken and not yet closed
    close_start,     \* close_all: what the running call found when it started
    close_outcomes,  \* what close_circuit answered to each call, in order
    close_ret,       \* close_all: the value the last call returned
    cpc2,            \* close_all called by the second task: where it is
    drained2,        \* the identifiers that call took and has not yet closed
    pc,              \* request(): where each invocation is
    url,             \* request(): the url argument
    body,            \* request(): the body argument
    circuit,         \* request(): the id of the Circuit create_new_circuit returned,
                     \* kept after the Circuit is dropped
    wire,            \* Circuit::request: the request in flight
    tx,              \* what became of the transport call
    response,        \* Circuit::request: the RawResponse execute_request answered
    result,          \* request(): the value returned
    log,             \* the steps each invocation has performed, in order
    applied,         \* the function last applied on its own, "none" at first
    input,           \* the argument it was applied to
    output           \* the value it returned

shared == <<config, rng, now, active_circuits, lock, close_calls>>
second == <<cpc2, drained2>>
closer == <<cpc, drained, close_start, close_outcomes, close_ret, second>>
locals == <<url, body, circuit, wire, tx, response>>
pure == <<applied, input, output>>
program == <<shared, closer, pc, locals, result, log>>
vars == <<pure, program>>

Init ==
    /\ config \in Configs
    /\ rng = 0
    /\ now = 0
    /\ active_circuits = <<>>
    /\ lock = {}
    /\ close_calls = <<>>
    /\ cpc = "idle"
    /\ drained = <<>>
    /\ close_start = NoStart
    /\ close_outcomes = <<>>
    /\ close_ret = "none"
    /\ cpc2 = "idle"
    /\ drained2 = <<>>
    /\ pc = [r \in Reqs |-> "idle"]
    /\ url = [r \in Reqs |-> <<>>]
    /\ body = [r \in Reqs |-> NoBody]
    /\ circuit = [r \in Reqs |-> NoCircuit]
    /\ wire = [r \in Reqs |-> NoWire]
    /\ tx = [r \in Reqs |-> "none"]
    /\ response = [r \in Reqs |-> NoResponse]
    /\ result = [r \in Reqs |-> Pending]
    /\ log = [r \in Reqs |-> <<>>]
    /\ applied = "none"
    /\ input = <<>>
    /\ output = <<>>

(***************************************************************************)
(* AnonymizedNetwork::request (lib.rs), one action per stretch of code     *)
(* between two awaits.  log records the steps of lib.rs:178-223 in the     *)
(* order the action performs them.                                         *)
(***************************************************************************)
\* IsSecureUrl with the scheme check loosened to "http".
IsSecureUrl_AnyHttp(u) == StartsWith(u, <<"h", "t", "t", "p">>)

\* url.starts_with("https://")
IsSecureUrl(u) == StartsWith(u, HttpsScheme)

\* request() returns res after performing steps; the Circuit it owns, if
\* any, is dropped (circuit keeps the id it had).
Return(r, res, steps) ==
    /\ result' = [result EXCEPT ![r] = res]
    /\ pc' = [pc EXCEPT ![r] = "done"]
    /\ log' = [log EXCEPT ![r] = @ \o steps \o <<"return">>]
    /\ wire' = [wire EXCEPT ![r] = NoWire]
    /\ close_calls' = IF circuit[r] # NoCircuit
                      THEN DropCircuit(close_calls, circuit[r])
                      ELSE close_calls

\* request() performs steps and awaits at next.
Step(r, next, steps) ==
    /\ pc' = [pc EXCEPT ![r] = next]
    /\ log' = [log EXCEPT ![r] = @ \o steps]

\* The call: the scheme check, then either the early return or the await on
\* the pre-request jitter.
Request(r, u, b) ==
    /\ pc[r] = "idle"
    /\ url' = [url EXCEPT ![r] = u]
    /\ body' = [body EXCEPT ![r] = b]
    /\ IF ~IsSecureUrl(u)
       THEN Return(r, Err("ProtocolNotSupported"), <<"validate">>)
       ELSE /\ Step(r, "jitter_pre", <<"validate">>)
            /\ UNCHANGED <<wire, result, close_calls>>
    /\ UNCHANGED <<pure, config, rng, now, active_circuits, lock, closer, circuit, tx, response>>

\* apply_jitter returns (after its sleep, if it drew one); request() calls
\* create_new_circuit, which awaits tor_controller.new_circuit().
JitterPre(r) ==
    /\ pc[r] = "jitter_pre"
    /\ \E jitter_ms \in GenRange(config.min_jitter_ms, config.max_jitter_ms) :
         JitterSleepMs(config.max_jitter_ms, jitter_ms) >= 0
    /\ Step(r, "new_circuit", <<"jitter">>)
    /\ UNCHANGED <<pure, shared, closer, locals, result>>

\* NewCircuitOk reusing a tracked circuit when the configuration does not
\* force a new one.
NewCircuitOk_Reuses(r) ==
    /\ pc[r] = "new_circuit"
    /\ IF ~config.new_circuit_per_request /\ active_circuits # <<>>
       THEN /\ circuit' = [circuit EXCEPT ![r] = active_circuits[1]]
            /\ Step(r, "prepare", <<>>)
            /\ UNCHANGED now
       ELSE /\ \E timestamp \in ClockReadings(now) :
                 /\ now' = timestamp
                 /\ circuit' = [circuit EXCEPT ![r] = GenerateCircuitId(timestamp)]
            /\ Step(r, "lock", <<"new_circuit">>)
    /\ UNCHANGED <<pure, config, rng, active_circuits, lock, close_calls, closer, url, body, wire, tx, response,
                   result>>

\* tor_controller.new_circuit() answers Ok(id): create_new_circuit goes on to
\* self.active_circuits.lock().await.
NewCircuitOk(r) ==
    /\ pc[r] = "new_circuit"
    /\ \E timestamp \in ClockReadings(now) :
         /\ now' = timestamp
         /\ circuit' = [circuit EXCEPT ![r] = GenerateCircuitId(timestamp)]
    /\ Step(r, "lock", <<"new_circuit">>)
    /\ UNCHANGED <<pure, config, rng, active_circuits, lock, close_calls, closer, url, body, wire, tx, response,
                   result>>

\* NewCircuitErr falling back to a circuit that is already tracked.
NewCircuitErr_FallsBack(r, k) ==
    /\ pc[r] = "new_circuit"
    /\ IF active_circuits # <<>>
       THEN /\ circuit' = [circuit EXCEPT ![r] = active_circuits[1]]
            /\ Step(r, "prepare", <<"new_circuit", "new_circuit_failed">>)
            /\ UNCHANGED <<wire, result, close_calls>>
       ELSE /\ Return(r, Err(k), <<"new_circuit", "new_circuit_failed">>)
            /\ UNCHANGED circuit
    /\ UNCHANGED <<pure, config, rng, now, active_circuits, lock, closer, url, body, tx, response>>

\* NewCircuitErr swallowing the error and going on with the pipeline.
NewCircuitErr_GoesOn(r, k) ==
    /\ pc[r] = "new_circuit"
    /\ Step(r, "prepare", <<"new_circuit", "new_circuit_failed">>)
    /\ UNCHANGED <<pure, shared, closer, locals, result>>

\* tor_controller.new_circuit() answers Err(k): `?` in create_new_circuit and
\* again in request() hand the error to the caller as it is.
NewCircuitErr(r, k) ==
    /\ pc[r] = "new_circuit"
    /\ Return(r, Err(k), <<"new_circuit", "new_circuit_failed">>)
    /\ UNCHANGED <<pure, config, rng, now, active_circuits, lock, closer, url, body, circuit, tx, response>>

\* The lock on active_circuits is acquired.
LockCircuits(r) ==
    /\ pc[r] = "lock"
    /\ lock = {}
    /\ lock' = {r}
    /\ pc' = [pc EXCEPT ![r] = "track"]
    /\ UNCHANGED <<pure, config, rng, now, active_circuits, close_calls, closer, locals, result, log>>

\* TrackCircuit with the guard kept after the push.
TrackCircuit_KeepsLock(r) ==
    /\ pc[r] = "track"
    /\ active_circuits' = Append(active_circuits, circuit[r])
    /\ Step(r, "prepare", <<"track">>)
    /\ UNCHANGED <<pure, config, rng, now, lock, close_calls, closer, locals, result>>

\* circuits.push(circuit_id.clone()); the guard is dropped; Ok(Circuit).
TrackCircuit(r) ==
    /\ pc[r] = "track"
    /\ active_circuits' = Append(active_circuits, circuit[r])
    /\ lock' = lock \ {r}
    /\ Step(r, "prepare", <<"track">>)
    /\ UNCHANGED <<pure, config, rng, now, close_calls, closer, locals, result>>

\* PrepareSteps with the body padded before the headers are synthesized.
PrepareSteps_PadFirst(b) ==
    (IF b # NoBody THEN <<"pad">> ELSE <<>>) \o <<"generate", "tls_config">>

\* PrepareSteps with a jitter delay just before the request is sent.
PrepareSteps_JitterBeforeSend(b) ==
    <<"generate">> \o (IF b # NoBody THEN <<"pad">> ELSE <<>>)
                  \o <<"tls_config", "jitter">>

\* The steps from header synthesis to the call of circuit.request, as the
\* log entries they leave: generate(), pad_request when there is a body,
\* create_config().
PrepareSteps(b) ==
    <<"generate">> \o (IF b # NoBody THEN <<"pad">> ELSE <<>>) \o <<"tls_config">>

\* generate() (which locks self.rng, draws the User-Agent from the generator
\* and drops the guard), pad_request, create_config, then circuit.request:
\* parse_url,
\* build_http_request and the await on
\* tokio::time::timeout(timeout, execute_request(..)).  The SyntheticHeaders
\* value is handed over as it is; Circuit::request reads it as its list of
\* (name, value) pairs.
PrepareRequest(r) ==
    /\ pc[r] = "prepare"
    /\ rng' = rng + 1
    /\ \E choice \in 1..Len(USER_AGENTS),
          padding_size \in GenRange(config.min_padding_bytes, config.max_padding_bytes) :
         LET synthetic_headers == Generate(choice)
             padded_body == IF body[r] # NoBody
                            THEN SomeBody(PadRequest(body[r][2], padding_size))
                            ELSE NoBody
             tls_config == CreateConfig
             parsed == ParseUrl(url[r])
         IN IF ~parsed.ok
            THEN /\ Return(r, Err("InvalidUrl"), PrepareSteps(body[r]) \o <<"parse_url">>)
                 /\ UNCHANGED <<tx, response>>
            ELSE /\ wire' = [wire EXCEPT ![r] =
                       BuildHttpRequest("GET", parsed, ToHeaderList(synthetic_headers),
                                        padded_body, tls_config)]
                 /\ tx' = [tx EXCEPT ![r] = "inflight"]
                 /\ Step(r, "inflight", PrepareSteps(body[r]) \o <<"parse_url", "transport">>)
                 /\ UNCHANGED <<result, close_calls>>
    /\ UNCHANGED <<pure, config, now, active_circuits, lock, closer, url, body, circuit, response>>

\* ExecuteRequestOk answering from the response an earlier invocation got for
\* the same url, when there is one.
ExecuteRequestOk_Cached(r, raw) ==
    /\ pc[r] = "inflight"
    /\ tx' = [tx EXCEPT ![r] = "Ok"]
    /\ response' = [response EXCEPT ![r] = raw]
    /\ LET earlier == {o \in Reqs \ {r} : result[o].kind = "Ok" /\ url[o] = url[r]}
           answer == IF earlier = {} THEN raw ELSE response[CHOOSE o \in earlier : TRUE]
       IN result' = [result EXCEPT ![r] =
              [kind |-> "Pending", status |-> answer.status,
               headers |-> SanitizeResponseHeaders(answer.headers), body |-> answer.body,
               circuit_id |-> <<>>]]
    /\ wire' = [wire EXCEPT ![r] = NoWire]
    /\ Step(r, "jitter_post", <<"response", "sanitize">>)
    /\ UNCHANGED <<pure, shared, closer, url, body, circuit>>

\* execute_request completes with Ok(raw) before the timeout:
\* sanitize_response_headers, then the await on the post-request jitter.
ExecuteRequestOk(r, raw) ==
    /\ pc[r] = "inflight"
    /\ tx' = [tx EXCEPT ![r] = "Ok"]
    /\ response' = [response EXCEPT ![r] = raw]
    /\ result' = [result EXCEPT ![r] =
           [kind |-> "Pending", status |-> raw.status,
            headers |-> SanitizeResponseHeaders(raw.headers), body |-> raw.body,
            circuit_id |-> <<>>]]
    /\ wire' = [wire EXCEPT ![r] = NoWire]
    /\ Step(r, "jitter_post", <<"response", "sanitize">>)
    /\ UNCHANGED <<pure, shared, closer, url, body, circuit>>

\* execute_request completes with Err(k) before the timeout: the second `?`
\* of Circuit::request and the `?` of request() hand it to the caller.
ExecuteRequestErr(r, k) ==
    /\ pc[r] = "inflight"
    /\ tx' = [tx EXCEPT ![r] = k]
    /\ Return(r, Err(k), <<"transport_failed">>)
    /\ UNCHANGED <<pure, config, rng, now, active_circuits, lock, closer, url, body, circuit, response>>

\* The timeout elapses first: the execute_request future is dropped.
RequestTimeout(r) ==
    /\ pc[r] = "inflight"
    /\ tx' = [tx EXCEPT ![r] = "cancelled"]
    /\ Return(r, ElapsedError, <<"timeout">>)
    /\ UNCHANGED <<pure, config, rng, now, active_circuits, lock, closer, url, body, circuit, response>>

\* JitterPost taking the circuit of the finished request off the tracked
\* list.
JitterPost_Untracks(r) ==
    /\ pc[r] = "jitter_post"
    /\ active_circuits' = SelectSeq(active_circuits, LAMBDA id : id # circuit[r])
    /\ Return(r, OkResponse(result[r].status, result[r].headers, result[r].body,
                            circuit[r]), <<"jitter">>)
    /\ UNCHANGED <<pure, config, rng, now, lock, closer, url, body, circuit, tx, response>>

\* apply_jitter returns after the response; Ok(NetworkResponse {..}).
JitterPost(r) ==
    /\ pc[r] = "jitter_post"
    /\ \E jitter_ms \in GenRange(config.min_jitter_ms, config.max_jitter_ms) :
         JitterSleepMs(config.max_jitter_ms, jitter_ms) >= 0
    /\ Return(r, OkResponse(result[r].status, result[r].headers, result[r].body,
                            circuit[r]), <<"jitter">>)
    /\ UNCHANGED <<pure, config, rng, now, active_circuits, lock, closer, url, body, circuit, tx, response>>

(***************************************************************************)
(* CircuitManager::close_all (circuit.rs).                                 *)
(***************************************************************************)
\* create_new_circuit has been called by invocation r (request() calls it
\* when the pre-request jitter returns).
CreateCalled(r) == \E i \in 1..Len(log[r]) : log[r][i] = "jitter"

\* create_new_circuit has returned to invocation r, with Ok or with Err.
CreateReturned(r) ==
    \E i \in 1..Len(log[r]) : log[r][i] \in {"track", "new_circuit_failed"}

\* The call, and self.active_circuits.lock().await
CloseAllLock ==
    /\ cpc = "idle"
    /\ lock = {}
    /\ lock' = {Closer}
    /\ cpc' = "take"
    /\ close_start' = [tracked |-> active_circuits,
                       returned |-> {r \in Reqs : CreateReturned(r)},
                       calls |-> Len(close_calls),
                       taken |-> <<>>]
    /\ close_ret' = "none"
    /\ UNCHANGED <<pure, second, config, rng, now, active_circuits, close_calls, drained, close_outcomes, pc,
                   locals, result, log>>

\* CloseAllTake with the guard kept for the close loop.
CloseAllTake_KeepsLock ==
    /\ cpc = "take"
    /\ drained' = active_circuits
    /\ close_start' = [close_start EXCEPT !.taken = active_circuits]
    /\ active_circuits' = <<>>
    /\ cpc' = "closing"
    /\ UNCHANGED <<pure, second, config, rng, now, lock, close_calls, close_outcomes, close_ret, pc, locals,
                   result, log>>

\* std::mem::take(&mut *circuits); the guard is dropped.
CloseAllTake ==
    /\ cpc = "take"
    /\ drained' = active_circuits
    /\ close_start' = [close_start EXCEPT !.taken = active_circuits]
    /\ active_circuits' = <<>>
    /\ lock' = lock \ {Closer}
    /\ cpc' = "closing"
    /\ UNCHANGED <<pure, second, config, rng, now, close_calls, close_outcomes, close_ret, pc, locals, result,
                   log>>

\* CloseCircuit with a failed close ending the loop, as `?` would.
CloseCircuit_StopsOnError(outcome) ==
    /\ cpc = "closing"
    /\ drained # <<>>
    /\ close_calls' = Append(close_calls, Head(drained))
    /\ close_outcomes' = Append(close_outcomes, outcome)
    /\ drained' = IF outcome = "Ok" THEN Tail(drained) ELSE <<>>
    /\ UNCHANGED <<pure, second, config, rng, now, active_circuits, lock, cpc, close_start, close_ret, pc,
                   locals, result, log>>

\* let _ = self.tor_controller.close_circuit(&circuit_id).await;
CloseCircuit(outcome) ==
    /\ cpc = "closing"
    /\ drained # <<>>
    /\ close_calls' = Append(close_calls, Head(drained))
    /\ close_outcomes' = Append(close_outcomes, outcome)
    /\ drained' = Tail(drained)
    /\ UNCHANGED <<pure, second, config, rng, now, active_circuits, lock, cpc, close_start, close_ret, pc,
                   locals, result, log>>

\* Ok(())
CloseAllReturn ==
    /\ cpc = "closing"
    /\ drained = <<>>
    /\ cpc' = "idle"
    /\ close_ret' = "Ok"
    /\ close_start' = NoStart
    /\ UNCHANGED <<pure, second, shared, drained, close_outcomes, pc, locals, result, log>>

(***************************************************************************)
(* CircuitManager::close_all called by a second task while the first may   *)
(* be inside its own call.                                                 *)
(***************************************************************************)
SecondCloseAllLock ==
    /\ cpc2 = "idle"
    /\ lock = {}
    /\ lock' = {SecondCloser}
    /\ cpc2' = "take"
    /\ UNCHANGED <<pure, config, rng, now, active_circuits, close_calls, cpc, drained,
                   close_start, close_outcomes, close_ret, drained2, pc, locals, result, log>>

\* SecondCloseAllTake copying the list instead of taking it.
SecondCloseAllTake_Clones ==
    /\ cpc2 = "take"
    /\ drained2' = active_circuits
    /\ lock' = lock \ {SecondCloser}
    /\ cpc2' = "closing"
    /\ UNCHANGED <<pure, config, rng, now, active_circuits, close_calls, cpc, drained,
                   close_start, close_outcomes, close_ret, pc, locals, result, log>>

\* std::mem::take(&mut *circuits); the guard is dropped.
SecondCloseAllTake ==
    /\ cpc2 = "take"
    /\ drained2' = active_circuits
    /\ active_circuits' = <<>>
    /\ lock' = lock \ {SecondCloser}
    /\ cpc2' = "closing"
    /\ UNCHANGED <<pure, config, rng, now, close_calls, cpc, drained, close_start,
                   close_outcomes, close_ret, pc, locals, result, log>>

\* let _ = self.tor_controller.close_circuit(&circuit_id).await
SecondCloseCircuit(outcome) ==
    /\ cpc2 = "closing"
    /\ drained2 # <<>>
    /\ close_calls' = Append(close_calls, Head(drained2))
    /\ close_outcomes' = Append(close_outcomes, outcome)
    /\ drained2' = Tail(drained2)
    /\ UNCHANGED <<pure, config, rng, now, active_circuits, lock, cpc, drained, close_start,
                   close_ret, cpc2, pc, locals, result, log>>

\* Ok(())
SecondCloseAllReturn ==
    /\ cpc2 = "closing"
    /\ drained2 = <<>>
    /\ cpc2' = "idle"
    /\ UNCHANGED <<pure, shared, cpc, drained, close_start, close_outcomes, close_ret,
                   drained2, pc, locals, result, log>>

(***************************************************************************)
(* Specifications.                                                         *)
(***************************************************************************)
\* The request() invocations on one AnonymizedNetwork, which never calls
\* close_all.
Next ==
    \/ \E r \in Reqs, u \in Urls, b \in Bodies : Request(r, u, b)
    \/ \E r \in Reqs : JitterPre(r)
    \/ \E r \in Reqs : NewCircuitOk(r)
    \/ \E r \in Reqs, k \in ControllerErrors : NewCircuitErr(r, k)
    \/ \E r \in Reqs : LockCircuits(r)
    \/ \E r \in Reqs : TrackCircuit(r)
    \/ \E r \in Reqs : PrepareRequest(r)
    \/ \E r \in Reqs, raw \in RawResponses : ExecuteRequestOk(r, raw)
    \/ \E r \in Reqs, k \in TransportErrors : ExecuteRequestErr(r, k)
    \/ \E r \in Reqs : RequestTimeout(r)
    \/ \E r \in Reqs : JitterPost(r)

Spec == Init /\ [][Next]_vars

\* The same with a task that calls CircuitManager::close_all on the shared
\* manager.
CloseAllNext ==
    \/ CloseAllLock
    \/ CloseAllTake
    \/ \E outcome \in CloseOutcomes : CloseCircuit(outcome)
    \/ CloseAllReturn

NextWithCloseAll == Next \/ CloseAllNext

SpecWithCloseAll == Init /\ [][NextWithCloseAll]_vars

SecondCloseAllNext ==
    \/ SecondCloseAllLock
    \/ SecondCloseAllTake
    \/ \E outcome \in CloseOutcomes : SecondCloseCircuit(outcome)
    \/ SecondCloseAllReturn

\* Two tasks that call close_all, each as often as it likes, beside the
\* request() invocations; the requests are all for one URL without a body,
\* and the transport answers with the placeholder response or not in time.
NextWithTwoClosers ==
    \/ \E r \in Reqs : Request(r, UrlOk, NoBody)
    \/ \E r \in Reqs : JitterPre(r)
    \/ \E r \in Reqs : NewCircuitOk(r)
    \/ \E r \in Reqs, k \in ControllerErrors : NewCircuitErr(r, k)
    \/ \E r \in Reqs : LockCircuits(r)
    \/ \E r \in Reqs : TrackCircuit(r)
    \/ \E r \in Reqs : PrepareRequest(r)
    \/ \E r \in Reqs : ExecuteRequestOk(r, PlaceholderResponse)
    \/ \E r \in Reqs : RequestTimeout(r)
    \/ \E r \in Reqs : JitterPost(r)
    \/ CloseAllNext
    \/ SecondCloseAllNext

SpecWithTwoClosers == Init /\ [][NextWithTwoClosers]_vars

\* The steps an invocation takes once it has been called: the runtime
\* schedules every task that can run, the tokio Mutex hands the lock over in
\* FIFO order, and the transport call ends with an answer or with the timer.
RequestStep(r) ==
    \/ JitterPre(r)
    \/ NewCircuitOk(r)
    \/ \E k \in ControllerErrors : NewCircuitErr(r, k)
    \/ LockCircuits(r)
    \/ TrackCircuit(r)
    \/ PrepareRequest(r)
    \/ \E raw \in RawResponses : ExecuteRequestOk(r, raw)
    \/ \E k \in TransportErrors : ExecuteRequestErr(r, k)
    \/ RequestTimeout(r)
    \/ JitterPost(r)

FairSpec == Spec /\ \A r \in Reqs : WF_vars(RequestStep(r))

(***************************************************************************)
(* The functions of the crate applied on their own to arguments of         *)
(* bounded size.                                                           *)
(***************************************************************************)
\* One call of f on x returning y, made once from the initial state.
Apply(f, x, y) ==
    /\ applied = "none"
    /\ applied' = f
    /\ input' = x
    /\ output' = y
    /\ UNCHANGED program

\* A second call, of g on what the call of f returned: output becomes the
\* pair of the two return values.
Reapply(f, g, y) ==
    /\ applied = f
    /\ applied' = g
    /\ output' = <<output, y>>
    /\ UNCHANGED <<input, program>>

ApplySanitizeResponseHeaders(hs) ==
    Apply("sanitize_response_headers", hs, SanitizeResponseHeaders(hs))

ApplyStripDangerousHeaders(hs) ==
    Apply("strip_dangerous_headers", hs, StripDangerousHeaders(hs))

\* generate(); output: <<user_agent, accept, accept_language,
\* accept_encoding>> of the value it returned.
ApplyGenerate(choice) ==
    LET h == Generate(choice)
    IN Apply("generate", choice,
             <<h.user_agent, h.accept, h.accept_language, h.accept_encoding>>)

\* generate(data.len()) and pad(data) of a PaddingGenerator::new(target_size);
\* input: <<target_size, data>>, output: <<padding, padded>>.
ApplyPaddingPad(target_size, data, random) ==
    Apply("padding_generator", <<target_size, data>>,
          <<PaddingGenerate(target_size, Len(data), random),
            PaddingPad(target_size, data, random)>>)

\* to_header_list of a generated value, then strip_dangerous_headers and
\* normalize_header_order on that list; input: <<for an image or not, the
\* index drawn>>, output: <<the list, the list after both>>.
ApplyOutboundSanitization(image, choice) ==
    LET h == IF image THEN GenerateForImage(choice) ELSE Generate(choice)
        list == ToHeaderList(h)
    IN Apply("outbound_sanitization", <<image, choice>>,
             <<list, NormalizeHeaderOrder(StripDangerousHeaders(list))>>)

\* pad_request of a shaper built with the bounds; input: <<min_padding,
\* max_padding, body>>.
ApplyPadRequestCall(bounds, bytes) ==
    Apply("pad_request of new", <<bounds[1], bounds[2], bytes>>,
          PadRequestCall(bounds[1], bounds[2], bytes))

ApplyToHeaderList(h) == Apply("to_header_list", h, ToHeaderList(h))

ApplyNormalizeHeaderOrder(hs) ==
    Apply("normalize_header_order", hs, NormalizeHeaderOrder(hs))

\* normalize_header_order called again on the list it returned.
ReapplyNormalizeHeaderOrder ==
    Reapply("normalize_header_order", "normalize_header_order twice",
            NormalizeHeaderOrder(output))

\* normalize_size in a build with or without overflow checks.
ApplyNormalizeSize(size, overflow_checks) ==
    Apply("normalize_size", [size |-> size, overflow_checks |-> overflow_checks],
          NormalizeSize(size, overflow_checks))

\* normalize_size called again, in the same build, on the value it returned.
ReapplyNormalizeSize ==
    /\ applied = "normalize_size"
    /\ ~output.panicked
    /\ Reapply("normalize_size", "normalize_size twice",
               NormalizeSize(output.value, input.overflow_checks))

\* input: <<min_jitter_ms, max_jitter_ms, the jitter_ms drawn>>.
CallApplyJitter(f, bounds, jitter_ms) ==
    Apply(f, <<bounds[1], bounds[2], jitter_ms>>,
          ApplyJitter(bounds[1], bounds[2], jitter_ms))

\* pad_request on the caller's body, then build_http_request on what it
\* returned, as request() and Circuit::request do in turn.  input: <<body,
\* the padding size drawn>>; output: <<the bytes pad_request returned, whether
\* the request built has a body, its Content-Length, its body bytes>>.
ApplyPadRequest(bytes, padding_size) ==
    LET padded == PadRequest(bytes, padding_size)
        built == BuildHttpRequest("POST", ParseUrl(UrlOk), NoHeaders,
                                  SomeBody(padded), CreateConfig)
    IN Apply("pad_request", <<bytes, padding_size>>,
             <<padded, built.has_body, built.content_length, built.body>>)

\* strip_dangerous_headers called again on the list it left.
ReapplyStripDangerousHeaders ==
    Reapply("strip_dangerous_headers", "strip_dangerous_headers twice",
            StripDangerousHeaders(output))

\* parse_url alone.  input: <<the URL>>; output: <<whether it returned Ok, the
\* host, the port, the path, the kind of the error>>; both of its errors are
\* NetworkError::InvalidUrl.
ApplyParseUrl(u) ==
    LET parsed == ParseUrl(u)
    IN Apply("parse_url", <<u>>,
             <<parsed.ok, parsed.host, parsed.port, parsed.path,
               IF parsed.ok THEN "" ELSE "InvalidUrl">>)

PureNext ==
    \/ \E hs \in HeaderLists(ResponseHeaderNames) : ApplySanitizeResponseHeaders(hs)
    \/ \E hs \in HeaderLists(RequestHeaderNames) : ApplyStripDangerousHeaders(hs)
    \/ ReapplyStripDangerousHeaders
    \/ \E h \in SyntheticValues : ApplyToHeaderList(h)
    \/ \E u \in ParseUrlInputs : ApplyParseUrl(u)
    \/ \E choice \in 1..Len(USER_AGENTS) : ApplyGenerate(choice)
    \/ \E bounds \in PaddingBounds, bytes \in PadBodies : ApplyPadRequestCall(bounds, bytes)
    \/ \E image \in BOOLEAN, choice \in 1..Len(USER_AGENTS) :
           ApplyOutboundSanitization(image, choice)
    \/ \E case \in PaddingCases : ApplyPaddingPad(case[1], case[2], case[3])
    \/ \E hs \in SortLists : ApplyNormalizeHeaderOrder(hs)
    \/ ReapplyNormalizeHeaderOrder
    \/ \E size \in Sizes, overflow_checks \in BOOLEAN :
           ApplyNormalizeSize(size, overflow_checks)
    \/ ReapplyNormalizeSize
    \/ \E bytes \in PadBodies, padding_size \in GenRange(0, MaxPadding) :
           ApplyPadRequest(bytes, padding_size)
    \/ \E bounds \in JitterBounds :
         \E jitter_ms \in JitterDraws(bounds[1], bounds[2]) :
           \/ CallApplyJitter("apply_jitter", bounds, jitter_ms)
           \/ CallApplyJitter("apply_jitter_sync", bounds, jitter_ms)

PureSpec == Init /\ [][PureNext]_vars

(***************************************************************************)
(* Helpers of the properties.                                              *)
(***************************************************************************)
Has(l, e) == \E i \in 1..Len(l) : l[i] = e
Count(l, e) == Cardinality({i \in 1..Len(l) : l[i] = e})
IsPrefix(p, l) == Len(p) <= Len(l) /\ SubSeq(l, 1, Len(p)) = p
Range(l) == {l[i] : i \in 1..Len(l)}

\* The identifier invocation r obtained from the controller, <<>> if none.
IdOf(r) == circuit[r]

\* The controller's new_circuit call of invocation r failed.
ControllerFailed(r) == Has(log[r], "new_circuit_failed")

\* With no close_all, the tracked list holds one entry per push.
TrackedByLog == Len(active_circuits) = Cardinality({r \in Reqs : Has(log[r], "track")})

(***************************************************************************)
(* C1: the circuit identifiers obtained by any two invocations of          *)
(* request() that reach circuit creation are distinct.  The identifier is  *)
(* the clock reading, so two calls that read the same value get the same   *)
(* identifier.                                                             *)
(***************************************************************************)
C1_DistinctCircuitIds ==
    \A r1, r2 \in Reqs :
        (r1 # r2 /\ IdOf(r1) # NoCircuit /\ IdOf(r2) # NoCircuit) => IdOf(r1) # IdOf(r2)

(***************************************************************************)
(* C2: request() with a URL that does not start with "https://" returns    *)
(* ProtocolNotSupported having applied no jitter, called neither the       *)
(* controller nor the transport, and tracked nothing.                      *)
(***************************************************************************)
C2_InsecureUrlRejected ==
    /\ TrackedByLog
    /\ \A r \in Reqs :
         (pc[r] # "idle" /\ ~StartsWith(url[r], HttpsScheme)) =>
            /\ pc[r] = "done"
            /\ result[r] = Err("ProtocolNotSupported")
            /\ log[r] = <<"validate", "return">>
            /\ circuit[r] = NoCircuit
            /\ circuit[r] \notin Range(active_circuits)
            /\ wire[r] = NoWire
            /\ tx[r] = "none"

C2_Witness ==
    \E r \in Reqs :
        /\ pc[r] = "done"
        /\ url[r] = UrlHttp
        /\ result[r].kind = "ProtocolNotSupported"
        /\ active_circuits # <<>>

(***************************************************************************)
(* C3: every circuit created by a request() invocation has been closed     *)
(* (close_circuit called with its identifier) when the invocation returns. *)
(* Dropping the Circuit only logs, and request() never calls               *)
(* close_circuit.                                                          *)
(***************************************************************************)
C3_CircuitClosedOnReturn ==
    \A r \in Reqs :
        (pc[r] = "done" /\ circuit[r] # NoCircuit) => circuit[r] \in Range(close_calls)

(***************************************************************************)
(* C4: a request() that fails with InvalidUrl or ProtocolNotSupported has  *)
(* requested no circuit and tracked nothing.  parse_url runs inside        *)
(* Circuit::request, after create_new_circuit.                             *)
(***************************************************************************)
C4_ValidationBeforeAcquisition ==
    \A r \in Reqs :
        (pc[r] = "done" /\ result[r].kind \in {"InvalidUrl", "ProtocolNotSupported"}) =>
            /\ ~Has(log[r], "new_circuit")
            /\ ~Has(log[r], "track")
            /\ circuit[r] = NoCircuit

(***************************************************************************)
(* C5: when the controller's new_circuit call fails, create_new_circuit    *)
(* returns a typed error and no Circuit, and pushes nothing on the tracked *)
(* list.                                                                   *)
(***************************************************************************)
C5_FailedCreationLeavesNothing ==
    /\ TrackedByLog
    /\ \A r \in Reqs :
         ControllerFailed(r) =>
            /\ result[r].kind \in ErrorKinds
            /\ circuit[r] = NoCircuit
            /\ ~Has(log[r], "track")
            /\ pc[r] \notin {"lock", "track"}

C5_Witness ==
    \E r \in Reqs :
        /\ ControllerFailed(r)
        /\ pc[r] = "done"
        /\ active_circuits # <<>>

PipelineSteps ==
    {"validate", "jitter", "new_circuit", "generate", "pad", "tls_config", "transport",
     "sanitize", "return"}

StepsOf(r) == SelectSeq(log[r], LAMBDA e : e \in PipelineSteps)

ExpectedOrder(b) ==
    <<"validate", "jitter", "new_circuit", "generate">>
    \o (IF b # NoBody THEN <<"pad">> ELSE <<>>)
    \o <<"tls_config", "transport", "sanitize", "jitter">>

C7_StepsInOrder ==
    \A r \in Reqs :
        LET s == StepsOf(r)
            returned == s # <<>> /\ s[Len(s)] = "return"
            before == IF returned THEN SubSeq(s, 1, Len(s) - 1) ELSE s
        IN /\ IsPrefix(before, ExpectedOrder(body[r]))
           /\ returned <=> pc[r] = "done"
           /\ result[r].kind = "Ok" => (returned /\ before = ExpectedOrder(body[r]))

C7_Witness ==
    \E r \in Reqs :
        /\ pc[r] = "done"
        /\ result[r].kind = "Ok"
        /\ body[r] # NoBody

(***************************************************************************)
(* C8: the headers of every request are passed through                    *)
(* strip_dangerous_headers and normalize_header_order, after their         *)
(* synthesis and before the request is issued.  request() calls neither.   *)
(***************************************************************************)
C8_OutboundSanitizationRuns ==
    \A r \in Reqs :
        Has(log[r], "transport") =>
            \E i, j, k, t \in 1..Len(log[r]) :
                /\ i < j /\ j < k /\ k < t
                /\ log[r][i] = "generate"
                /\ log[r][j] = "strip_dangerous"
                /\ log[r][k] = "normalize_order"
                /\ log[r][t] = "transport"

(***************************************************************************)
(* C9: every request() that passes the scheme check calls the controller's *)
(* new_circuit exactly once and the transport at most once, whatever the   *)
(* configuration holds; the circuit it uses is the one that call returned. *)
(***************************************************************************)
C9_OneCircuitNoRetry ==
    \A r \in Reqs :
        /\ Count(log[r], "new_circuit") <= 1
        /\ Count(log[r], "transport") <= 1
        /\ Count(log[r], "track") <= 1
        /\ (pc[r] \notin {"idle", "jitter_pre", "new_circuit"} /\ StartsWith(url[r], HttpsScheme))
              => Count(log[r], "new_circuit") = 1
        /\ circuit[r] # NoCircuit => (Has(log[r], "new_circuit") /\ ~ControllerFailed(r))
        /\ Has(log[r], "transport") => Has(log[r], "track")

C9_Witness ==
    \E r \in Reqs :
        /\ pc[r] = "done"
        /\ ~config.new_circuit_per_request
        /\ result[r].kind = "Ok"
        /\ Count(log[r], "new_circuit") = 1
        /\ Count(log[r], "transport") = 1
        /\ active_circuits # <<>>

(***************************************************************************)
(* C10: when the timeout elapses before the transport call completes,      *)
(* request() fails with Timeout and the call is dropped; a transport       *)
(* failure that arrives first is returned with its own kind, never as      *)
(* Timeout and never as a response.                                        *)
(***************************************************************************)
C10_TimeoutAndFailureKinds ==
    \A r \in Reqs :
        /\ tx[r] = "cancelled" =>
              (pc[r] = "done" /\ result[r] = Err("Timeout") /\ wire[r] = NoWire)
        /\ tx[r] \in TransportErrors => (pc[r] = "done" /\ result[r] = Err(tx[r]))
        /\ result[r].kind = "Timeout" => tx[r] = "cancelled"
        /\ result[r].kind = "Ok" => tx[r] = "Ok"

C10_Witness ==
    \E r1, r2 \in Reqs :
        /\ tx[r1] = "cancelled"
        /\ result[r1].kind = "Timeout"
        /\ tx[r2] = "TlsError"
        /\ result[r2].kind = "TlsError"

(***************************************************************************)
(* C11: every request() invocation that was called eventually returns,     *)
(* with exactly one of Ok or an error kind, when every runnable task is    *)
(* scheduled and the transport call ends (at the latest by its timer); a   *)
(* returned invocation takes no further step and its result never changes. *)
(***************************************************************************)
TerminalKinds == {"Ok"} \cup ErrorKinds

C11_EventuallyTerminal ==
    /\ \A r \in Reqs : (pc[r] # "idle") ~> (pc[r] = "done")
    /\ [](\A r \in Reqs : (pc[r] = "done") <=> (result[r].kind \in TerminalKinds))
    /\ [][\A r \in Reqs :
             pc[r] = "done" =>
                /\ pc'[r] = "done"
                /\ result'[r] = result[r]
                /\ log'[r] = log[r]
                /\ tx'[r] = tx[r]]_vars

C11_Witness ==
    /\ \A r \in Reqs : pc[r] = "done"
    /\ \E r \in Reqs : result[r].kind = "Ok"
    /\ \E r \in Reqs : result[r].kind = "Timeout"

(***************************************************************************)
(* C12: with concurrent create_new_circuit calls and no close_all, the     *)
(* tracked list holds exactly one entry per call that pushed (no lost      *)
(* update) and never holds the same identifier twice (no duplicate).  The  *)
(* lock keeps every push, but two calls that read the same clock value     *)
(* push the same identifier.                                               *)
(***************************************************************************)
C12_TrackedSetExact ==
    /\ Len(active_circuits) = Cardinality({r \in Reqs : Has(log[r], "track")})
    /\ \A r \in Reqs : Has(log[r], "track") => circuit[r] \in Range(active_circuits)
    /\ \A i, j \in 1..Len(active_circuits) :
         i # j => active_circuits[i] # active_circuits[j]

(***************************************************************************)
(* C13: the lock on the tracked list has at most one holder, and a task    *)
(* holds it only between its acquisition and the push (create_new_circuit) *)
(* or the take (close_all): never while it waits on new_circuit, on        *)
(* close_circuit, on the transport call or on a jitter delay.              *)
(***************************************************************************)
C13_LockOnlyAroundInsertAndDrain ==
    /\ Cardinality(lock) <= 1
    /\ \A r \in Reqs : r \in lock <=> pc[r] = "track"
    /\ Closer \in lock <=> cpc = "take"
    /\ \A r \in Reqs :
         pc[r] \in {"jitter_pre", "new_circuit", "inflight", "jitter_post"} => r \notin lock
    /\ cpc = "closing" => Closer \notin lock

C13_Witness ==
    \E r1, r2 \in Reqs :
        /\ lock = {r1}
        /\ pc[r2] = "inflight"
        /\ cpc = "closing"
        /\ drained # <<>>

\* The close_circuit calls the running close_all has made so far.
CallsSinceStart(calls) == SubSeq(calls, close_start.calls + 1, Len(calls))

\* The step on which close_all returns.
CloseAllReturns == cpc = "closing" /\ cpc' = "idle"

\* Every create_new_circuit call made so far had returned when the running
\* close_all started: none overlapped it.
NoCreateOverlapped == {r \in Reqs : CreateCalled(r)} \subseteq close_start.returned

(***************************************************************************)
(* C14: when close_all returns and no create_new_circuit overlapped it,    *)
(* the tracked list is empty and close_circuit has been called exactly     *)
(* once for each identifier that was tracked when close_all started.  The  *)
(* list is drained entry by entry, so an identifier that was pushed twice  *)
(* is closed twice.                                                        *)
(***************************************************************************)
C14_CloseAllClosesEachOnce ==
    [][(CloseAllReturns /\ NoCreateOverlapped) =>
          /\ active_circuits' = <<>>
          /\ \A id \in Range(close_start.tracked) :
               Count(CallsSinceStart(close_calls'), id) = 1]_vars

(***************************************************************************)
(* C15: close_all returns Ok(()) whatever close_circuit answered, and a    *)
(* failed close does not end the loop: when close_all returns it has       *)
(* called close_circuit for every entry it took, in order, each answer     *)
(* dropped.                                                                *)
(***************************************************************************)
C15_CloseAllBestEffort ==
    /\ [](close_ret \in {"none", "Ok"})
    /\ [](Len(close_outcomes) = Len(close_calls))
    /\ [][CloseAllReturns =>
             /\ close_ret' = "Ok"
             /\ CallsSinceStart(close_calls') = close_start.taken]_vars

C15_Witness ==
    /\ cpc = "closing"
    /\ drained = <<>>
    /\ Len(close_start.taken) = 2
    /\ Len(close_calls) = close_start.calls + 2
    /\ close_outcomes[close_start.calls + 1] \in CloseErrors

\* Invocation r performs its header synthesis, padding and TLS profile (the
\* step out of "prepare") or returns from one of its jitter delays.
LocalStep(r) == pc[r] \in {"jitter_pre", "prepare", "jitter_post"} /\ pc'[r] # pc[r]

\* The step leaves alone what belongs to the other invocations and the
\* tracked list with its lock.
OthersUntouched(r) ==
    /\ active_circuits' = active_circuits
    /\ lock' = lock
    /\ \A o \in Reqs \ {r} :
         /\ pc'[o] = pc[o]
         /\ url'[o] = url[o]
         /\ body'[o] = body[o]
         /\ circuit'[o] = circuit[o]
         /\ wire'[o] = wire[o]
         /\ tx'[o] = tx[o]
         /\ result'[o] = result[o]
         /\ log'[o] = log[o]

(***************************************************************************)
(* C16: the header synthesis, padding, jitter and TLS profile steps of an  *)
(* invocation touch no state that another invocation's steps touch, the    *)
(* tracked list included, and take no lock.  generate() locks the Mutex    *)
(* around HeaderSynthesizer.rng and advances the generator every           *)
(* invocation draws from.                                                  *)
(***************************************************************************)
C16_StepsAreRequestLocal ==
    [][\A r \in Reqs : LocalStep(r) => (OthersUntouched(r) /\ rng' = rng)]_vars

\* What the collaborators answered to invocation r: the controller, and the
\* transport call.
AnswersTo(r) == <<ControllerFailed(r), tx[r], response[r]>>

\* What the caller of invocation r gets, the circuit identifier aside.
OutcomeOf(r) ==
    [kind |-> result[r].kind, status |-> result[r].status,
     headers |-> result[r].headers, body |-> result[r].body]

(***************************************************************************)
(* C17: the outcome of request() depends on nothing but its arguments and  *)
(* what the collaborators answer to it: two returned invocations with the  *)
(* same url and body and the same answers have the same outcome, whatever  *)
(* was requested before them, and a successful one returns the status and  *)
(* body of its own round trip.                                             *)
(***************************************************************************)
C17_StatelessAcrossInvocations ==
    /\ \A r1, r2 \in Reqs :
         (/\ pc[r1] = "done" /\ pc[r2] = "done"
          /\ url[r1] = url[r2] /\ body[r1] = body[r2]
          /\ AnswersTo(r1) = AnswersTo(r2)) => OutcomeOf(r1) = OutcomeOf(r2)
    /\ \A r \in Reqs :
         result[r].kind = "Ok" =>
            /\ tx[r] = "Ok"
            /\ Count(log[r], "transport") = 1
            /\ result[r].status = response[r].status
            /\ result[r].body = response[r].body

C17_Witness ==
    \E r1, r2 \in Reqs :
        /\ r1 # r2
        /\ url[r1] = url[r2]
        /\ result[r1].kind = "Ok" /\ response[r1] = PlaceholderResponse
        /\ result[r2].kind = "Ok" /\ response[r2] = ServerResponse

\* The positions of l whose entry satisfies Keep, and the entries at these
\* positions in the order of l.
KeptPositions(l, Keep(_)) == {i \in 1..Len(l) : Keep(l[i])}

NthOf(S, k) == CHOOSE i \in S : Cardinality({j \in S : j < i}) = k - 1

Filtered(l, Keep(_)) ==
    [k \in 1..Cardinality(KeptPositions(l, Keep)) |-> l[NthOf(KeptPositions(l, Keep), k)]]

(***************************************************************************)
(* C18: sanitize_response_headers returns the entries of its argument      *)
(* whose name, compared without regard to letter case, is none of          *)
(* set-cookie, set-cookie2, etag, last-modified, x-request-id,             *)
(* x-correlation-id, x-amzn-requestid, cf-ray, x-cache, x-served-by,       *)
(* x-timer, x-trace-id: all of them, unchanged, in the order of the        *)
(* argument, and no other entry.                                           *)
(***************************************************************************)
C18_FixedSet ==
    {"set-cookie", "set-cookie2", "etag", "last-modified", "x-request-id",
     "x-correlation-id", "x-amzn-requestid", "cf-ray", "x-cache", "x-served-by",
     "x-timer", "x-trace-id"}

C18_ResponseSanitizationExact ==
    applied = "sanitize_response_headers" =>
        LET Keep(h) == ToLowercase(h[1]) \notin C18_FixedSet
        IN /\ output = Filtered(input, Keep)
           /\ \A k \in 1..Len(output) : ToLowercase(output[k][1]) \notin C18_FixedSet
           /\ Len(input) - Len(output)
                 = Cardinality({i \in 1..Len(input) : ToLowercase(input[i][1]) \in C18_FixedSet})

C18_Witness ==
    /\ applied = "sanitize_response_headers"
    /\ input = << <<"Set-Cookie", "v">>, <<"Content-Type", "v">> >>
    /\ output = << <<"Content-Type", "v">> >>

(***************************************************************************)
(* C19: the header list of every NetworkResponse request() returns holds   *)
(* no two entries with the same header name.  sanitize_response_headers    *)
(* only filters: entries of the raw response that share a name and are not *)
(* on its list all come through.                                           *)
(***************************************************************************)
C19_ResponseHeadersDeduplicated ==
    \A r \in Reqs :
        result[r].kind = "Ok" =>
            \A i, j \in 1..Len(result[r].headers) :
                i # j => ToLowercase(result[r].headers[i][1])
                            # ToLowercase(result[r].headers[j][1])

(***************************************************************************)
(* C20: strip_dangerous_headers leaves of any header list the entries      *)
(* whose name, compared without regard to letter case, is none of cookie,  *)
(* authorization, proxy-authorization, x-forwarded-for, x-real-ip,         *)
(* x-client-ip, forwarded, via, x-request-id, x-correlation-id, dnt,       *)
(* referer, origin: no entry with such a name remains, and all the others  *)
(* remain, unchanged and in their order.                                   *)
(***************************************************************************)
C20_ForbiddenSet ==
    {"cookie", "authorization", "proxy-authorization", "x-forwarded-for", "x-real-ip",
     "x-client-ip", "forwarded", "via", "x-request-id", "x-correlation-id", "dnt",
     "referer", "origin"}

C20_StripDangerousExact ==
    applied = "strip_dangerous_headers" =>
        LET Keep(h) == ToLowercase(h[1]) \notin C20_ForbiddenSet
        IN /\ \A k \in 1..Len(output) : ToLowercase(output[k][1]) \notin C20_ForbiddenSet
           /\ output = Filtered(input, Keep)
           /\ \A i \in 1..Len(input) :
                Keep(input[i]) => \E k \in 1..Len(output) : output[k] = input[i]

C20_Witness ==
    /\ applied = "strip_dangerous_headers"
    /\ input = << <<"Cookie", "v">>, <<"User-Agent", "v">> >>
    /\ output = << <<"User-Agent", "v">> >>

(***************************************************************************)
(* C21: strip_dangerous_headers is idempotent: called on the list a first  *)
(* call left, it leaves that list as it is.                                *)
(***************************************************************************)
C21_StripDangerousIdempotent ==
    applied = "strip_dangerous_headers twice" => output[2] = output[1]

C21_Witness ==
    /\ applied = "strip_dangerous_headers twice"
    /\ input = << <<"Cookie", "v">>, <<"referer", "v">> >>
    /\ output[2] = <<>>

(***************************************************************************)
(* C22: for every SyntheticHeaders value, to_header_list yields the four   *)
(* synthesized headers followed by the six fixed ones, and no header named *)
(* cookie, authorization, proxy-authorization, x-forwarded-*, x-real-ip or *)
(* another client-address name, referer or dnt, nor any name outside the   *)
(* ten.                                                                    *)
(***************************************************************************)
C22_FixedAdditional ==
    << <<"Connection", "keep-alive">>,
       <<"Upgrade-Insecure-Requests", "1">>,
       <<"Sec-Fetch-Dest", "document">>,
       <<"Sec-Fetch-Mode", "navigate">>,
       <<"Sec-Fetch-Site", "none">>,
       <<"Sec-Fetch-User", "?1">> >>

C22_NeverSent ==
    {"cookie", "authorization", "proxy-authorization", "x-forwarded-for",
     "x-forwarded-host", "x-forwarded-proto", "x-real-ip", "x-client-ip",
     "client-ip", "true-client-ip", "cf-connecting-ip", "forwarded",
     "referer", "dnt"}

C22_SentNames ==
    {"user-agent", "accept", "accept-language", "accept-encoding",
     "connection", "upgrade-insecure-requests", "sec-fetch-dest",
     "sec-fetch-mode", "sec-fetch-site", "sec-fetch-user"}

C22_HeaderListExact ==
    applied = "to_header_list" =>
        /\ output = << <<"User-Agent", input.user_agent>>,
                       <<"Accept", input.accept>>,
                       <<"Accept-Language", input.accept_language>>,
                       <<"Accept-Encoding", input.accept_encoding>> >>
                    \o C22_FixedAdditional
        /\ \A i \in 1..Len(output) :
               /\ ToLowercase(output[i][1]) \notin C22_NeverSent
               /\ ToLowercase(output[i][1]) \in C22_SentNames

C22_Witness ==
    /\ applied = "to_header_list"
    /\ input = GenerateForImage(2)
    /\ Len(output) = 10
    /\ output[2] = <<"Accept", ACCEPT_IMAGE>>

(***************************************************************************)
(* C23: normalize_header_order returns a permutation of its input, ordered *)
(* by the position of the lowercased name in the canonical table, names    *)
(* the table lacks after all it has, and entries that compare equal (names *)
(* the table lacks, or a name repeated) in the order the input had them.   *)
(***************************************************************************)
C23_Positions == 1..PositionOfAbsent

C23_AtPosition(hs, p) == SelectSeq(hs, LAMBDA h : HeaderPosition(h[1]) = p)

C23_OrderedStablePermutation ==
    applied = "normalize_header_order" =>
        /\ Len(output) = Len(input)
        /\ \A e \in Range(input) \cup Range(output) :
               Count(output, e) = Count(input, e)
        /\ \A i, j \in 1..Len(output) :
               i < j => HeaderPosition(output[i][1]) <= HeaderPosition(output[j][1])
        /\ \A i, j \in 1..Len(output) :
               (/\ ToLowercase(output[i][1]) \in Range(HeaderOrder)
                /\ ToLowercase(output[j][1]) \notin Range(HeaderOrder)) => i < j
        /\ \A p \in C23_Positions :
               C23_AtPosition(output, p) = C23_AtPosition(input, p)

C23_Witness ==
    /\ applied = "normalize_header_order"
    /\ input = << <<"X-A", "w">>, <<"accept", "w">>, <<"Host", "v">> >>
    /\ output = << <<"Host", "v">>, <<"accept", "w">>, <<"X-A", "w">> >>

(***************************************************************************)
(* C24: normalize_header_order is idempotent: called on the list a first   *)
(* call returned, it returns that list unchanged.                          *)
(***************************************************************************)
C24_NormalizeOrderIdempotent ==
    applied = "normalize_header_order twice" => output[2] = output[1]

C24_Witness ==
    /\ applied = "normalize_header_order twice"
    /\ input = << <<"X-A", "v">>, <<"accept", "w">>, <<"Accept", "v">> >>
    /\ output[2] = << <<"accept", "w">>, <<"Accept", "v">>, <<"X-A", "v">> >>

(***************************************************************************)
(* C25: normalize_size(n) is the smallest of the buckets 512, 1024, 2048,  *)
(* 4096, 8192, 16384, 32768, 65536 that is at least n when n <= 65536, and *)
(* the smallest multiple of 65536 that is at least n when n > 65536.       *)
(***************************************************************************)
C25_Buckets == {Usize(BUCKETS[i]) : i \in 1..Len(BUCKETS)}

C25_SmallestBucket(n, v) ==
    /\ v \in C25_Buckets
    /\ UsizeLeq(n, v)
    /\ \A b \in C25_Buckets : UsizeLeq(n, b) => UsizeLeq(v, b)

C25_SmallestMultiple(n, v) ==
    /\ v[2] = 0
    /\ UsizeLeq(n, v)
    /\ ~UsizeLeq(n, <<v[1] - 1, 0>>)

C25_BucketOrMultiple ==
    applied = "normalize_size" =>
        /\ ~output.panicked
        /\ IF UsizeLeq(input.size, Usize(65536))
           THEN C25_SmallestBucket(input.size, output.value)
           ELSE C25_SmallestMultiple(input.size, output.value)

(***************************************************************************)
(* C26: normalize_size is total and never shrinks: for every n a usize     *)
(* holds, the values next to usize::MAX included, it returns a value that  *)
(* is at least n.                                                          *)
(***************************************************************************)
C26_TotalAndNeverShrinks ==
    applied = "normalize_size" =>
        /\ ~output.panicked
        /\ UsizeLeq(input.size, output.value)

(***************************************************************************)
(* C27: normalize_size is idempotent: called on the value a first call     *)
(* returned, it returns that value.                                        *)
(***************************************************************************)
C27_NormalizeSizeIdempotent ==
    applied = "normalize_size twice" =>
        /\ ~output[2].panicked
        /\ output[2].value = output[1].value

(***************************************************************************)
(* C28: one call of apply_jitter (or apply_jitter_sync) sleeps at most     *)
(* once, for a duration between min_jitter_ms and max_jitter_ms; with      *)
(* max_jitter_ms 0 it returns without sleeping, and it never issues a      *)
(* sleep of length zero.                                                   *)
(***************************************************************************)
C28_JitterAtMostOnceInRange ==
    applied \in {"apply_jitter", "apply_jitter_sync"} =>
        /\ Len(output.sleeps) <= 1
        /\ \A i \in 1..Len(output.sleeps) :
               /\ input[1] <= output.sleeps[i]
               /\ output.sleeps[i] <= input[2]
               /\ output.sleeps[i] > 0
        /\ input[2] = 0 => output.sleeps = <<>>

C28_Witness ==
    /\ applied = "apply_jitter"
    /\ input = <<0, 2, 0>>
    /\ output = Slept(<<>>)

(***************************************************************************)
(* C29: request() calls apply_jitter exactly once before the network call  *)
(* and, when that call succeeds, exactly once after it: never more than    *)
(* twice in an invocation, and never between the creation of the circuit   *)
(* and the end of the transport call.                                      *)
(***************************************************************************)
C29_TransportEnds == {"response", "transport_failed", "timeout"}

\* The calls of apply_jitter invocation r has made: those that returned and
\* the one it is waiting in.
C29_JitterCalls(r) ==
    Count(log[r], "jitter")
      + (IF pc[r] \in {"jitter_pre", "jitter_post"} THEN 1 ELSE 0)

C29_JitterOnceBeforeOnceAfter ==
    \A r \in Reqs :
        /\ C29_JitterCalls(r) <= 2
        /\ \A i \in 1..Len(log[r]) :
               log[r][i] = "new_circuit" =>
                   Count(SubSeq(log[r], 1, i - 1), "jitter") = 1
        /\ \A i \in 1..Len(log[r]) :
               log[r][i] = "jitter" =>
                   \/ \A k \in 1..(i - 1) : log[r][k] # "new_circuit"
                   \/ \E k \in 1..(i - 1) : log[r][k] \in C29_TransportEnds
        /\ pc[r] = "jitter_pre" => ~Has(log[r], "new_circuit")
        /\ pc[r] = "jitter_post" => Has(log[r], "response")
        /\ \A i \in 1..Len(log[r]) :
               log[r][i] = "response" =>
                   /\ Count(SubSeq(log[r], 1, i), "jitter") = 1
                   /\ pc[r] = "done" => Count(log[r], "jitter") = 2
        /\ result[r].kind = "Ok" =>
               (Has(log[r], "response") /\ Count(log[r], "jitter") = 2)
        /\ (pc[r] = "done" /\ ~Has(log[r], "response")) =>
               Count(log[r], "jitter") <= 1

C29_Witness ==
    \E r \in Reqs :
        /\ result[r].kind = "Ok"
        /\ Count(log[r], "jitter") = 2
        /\ log[r][2] = "jitter"
        /\ log[r][Len(log[r]) - 1] = "jitter"

C31_VersionNumber(v) == IF v = "Tls12" THEN 12 ELSE IF v = "Tls13" THEN 13 ELSE 0

C31_Profiles == {wire[r].tls[1] : r \in {q \in Reqs : wire[q].tls # <<>>}}

C31_ProfileConstant ==
    /\ \A p \in C31_Profiles :
           /\ p = TorBrowserConfig
           /\ p.cipher_suites[1] = 4865
           /\ p.alpn_protocols = <<"h2", "http/1.1">>
           /\ p.min_version = "Tls12"
           /\ p.max_version = "Tls13"
           /\ C31_VersionNumber(p.min_version) < C31_VersionNumber(p.max_version)
    /\ Cardinality(C31_Profiles) <= 1
    /\ \A r \in Reqs :
           /\ result[r].kind = "TlsError" => Has(log[r], "transport_failed")
           /\ pc[r] = "inflight" => wire[r].tls # <<>>

C31_Witness ==
    /\ \A r \in Reqs : pc[r] = "inflight" /\ wire[r].tls = <<TorBrowserConfig>>
    /\ rng = NumReq

(***************************************************************************)
(* C32: every SyntheticHeaders value generate() produces has a user agent  *)
(* that is an entry of USER_AGENTS, and the same fixed accept,             *)
(* accept-language and accept-encoding: only the user agent varies, and    *)
(* only within that list.                                                  *)
(***************************************************************************)
C32_OnlyUserAgentVaries ==
    applied = "generate" =>
        /\ output[1] \in Range(USER_AGENTS)
        /\ output[2] = "text/html,application/xhtml+xml,application/xml;q=0.9,image/avif,image/webp,*/*;q=0.8"
        /\ output[3] = "en-US,en;q=0.5"
        /\ output[4] = "gzip, deflate, br"

C32_Witness ==
    /\ applied = "generate"
    /\ input = 3
    /\ output[1] = USER_AGENTS[3]

(***************************************************************************)
(* C33: the User-Agent sent with every request contains both "Firefox" and *)
(* "Windows".  generate() draws from three strings, of which only the      *)
(* first names Windows.                                                    *)
(***************************************************************************)
C33_SentUserAgents ==
    {wire[r].headers[1][2] : r \in {q \in Reqs : wire[q].headers # NoHeaders}}

C33_UserAgentFirefoxWindows ==
    \A ua \in C33_SentUserAgents :
        Contains(ua, "Firefox") /\ Contains(ua, "Windows")

(***************************************************************************)
(* C34: for a PaddingGenerator with target size T (512 by default),        *)
(* generate(c) returns T - c bytes when c < T and none when c >= T, so     *)
(* pad(data) starts with data unchanged and has length max(len(data), T);  *)
(* data shorter than 512 bytes is padded to at least 512 by the default.   *)
(***************************************************************************)
C34_Max(a, b) == IF a >= b THEN a ELSE b

C34_PaddedToTarget ==
    applied = "padding_generator" =>
        LET T == input[1]
            data == input[2]
            c == Len(data)
        IN /\ Len(output[1]) = IF c < T THEN T - c ELSE 0
           /\ IsPrefix(data, output[2])
           /\ Len(output[2]) = C34_Max(c, T)
           /\ (T = 512 /\ c < 512) => Len(output[2]) >= 512

C34_Witness ==
    /\ applied = "padding_generator"
    /\ input = <<512, <<104, 104, 104, 104, 104>> >>
    /\ Len(output[1]) = 507
    /\ Len(output[2]) = 512

(***************************************************************************)
(* C35: on success the NetworkResponse request() returns carries the       *)
(* status and the body of the transport's raw response unchanged, and its  *)
(* circuit_id is the identifier of the circuit created in that same        *)
(* invocation, never that of another request's circuit.                    *)
(***************************************************************************)
C35_ResponseOfOwnCircuit ==
    \A r \in Reqs :
        result[r].kind = "Ok" =>
            /\ result[r].status = response[r].status
            /\ result[r].body = response[r].body
            /\ result[r].circuit_id = circuit[r]
            /\ \A q \in Reqs \ {r} : result[r].circuit_id # circuit[q]

(***************************************************************************)
(* C36: an identifier create_new_circuit added to the tracked list is      *)
(* removed only by close_all: the completion, failure or timeout of the    *)
(* request that owns the circuit, and the drop of the Circuit value, leave *)
(* the list as it is, so between two close_all calls the list only grows.  *)
(***************************************************************************)
C36_CloseAllTakes == cpc = "take" /\ cpc' = "closing"

C36_Returns(r) == pc[r] # "done" /\ pc'[r] = "done"

C36_OnlyCloseAllRemoves ==
    [][/\ ~C36_CloseAllTakes => IsPrefix(active_circuits, active_circuits')
       /\ \A r \in Reqs : C36_Returns(r) => active_circuits' = active_circuits]_vars

C36_Witness ==
    /\ close_ret = "Ok"
    /\ \E r \in Reqs :
           /\ result[r].kind = "Ok"
           /\ Has(active_circuits, circuit[r])
    /\ \E r \in Reqs :
           /\ result[r].kind = "Timeout"
           /\ Has(active_circuits, circuit[r])

(***************************************************************************)
(* C37: under any interleaving of concurrent close_all calls with          *)
(* create_new_circuit calls, each tracked entry is drained by exactly one  *)
(* close_all, so close_circuit is attempted at most once per tracked       *)
(* entry: an entry that was pushed is in the tracked list, or in the hands *)
(* of one close_all, or has been closed, and in one of these only.         *)
(***************************************************************************)
C37_Pushed(id) == Cardinality({r \in Reqs : Has(log[r], "track") /\ circuit[r] = id})

C37_Held(id) ==
    Count(active_circuits, id) + Count(drained, id) + Count(drained2, id)
      + Count(close_calls, id)

C37_Ids ==
    Range(active_circuits) \cup Range(drained) \cup Range(drained2)
      \cup Range(close_calls) \cup {circuit[r] : r \in Reqs}

C37_EachEntryDrainedOnce ==
    \A id \in C37_Ids \ {NoCircuit} : C37_Held(id) = C37_Pushed(id)

C37_Witness ==
    /\ cpc = "closing"
    /\ cpc2 = "closing"
    /\ drained # <<>>
    /\ drained2 # <<>>

(***************************************************************************)
(* C38: the list to_header_list produces for a generated SyntheticHeaders  *)
(* is a fixed point of the outbound sanitization: strip_dangerous_headers  *)
(* removes nothing from it and normalize_header_order leaves its order     *)
(* unchanged, so both together return the same ten entries in the same     *)
(* order.                                                                  *)
(***************************************************************************)
C38_SynthesizedListIsFixedPoint ==
    applied = "outbound_sanitization" =>
        /\ Len(output[1]) = 10
        /\ StripDangerousHeaders(output[1]) = output[1]
        /\ NormalizeHeaderOrder(output[1]) = output[1]
        /\ output[2] = output[1]

C38_Witness ==
    /\ applied = "outbound_sanitization"
    /\ input = <<TRUE, 2>>
    /\ Len(output[2]) = 10
    /\ output[2][1] = <<"User-Agent", USER_AGENTS[2]>>
    /\ output[2][10] = <<"Sec-Fetch-User", "?1">>

(***************************************************************************)
(* C39: apply_jitter, apply_jitter_sync and pad_request complete without   *)
(* aborting for every parameter set TrafficShaper::new accepts, a minimum  *)
(* greater than the maximum included (min_jitter_ms > max_jitter_ms > 0,   *)
(* or min_padding > max_padding).  new() checks nothing, and gen_range     *)
(* panics on the empty range.                                              *)
(***************************************************************************)
C39_ShaperNeverAborts ==
    /\ applied \in {"apply_jitter", "apply_jitter_sync"} => ~output.panicked
    /\ applied = "pad_request of new" => ~output[1]

(***************************************************************************)
(* C40: parse_url on https://host[:port][/path] yields the host, the port  *)
(* (443 when none is given) and the path ("/" when none is given); it      *)
(* fails with InvalidUrl when the URL does not start with "https://" or    *)
(* when the text after the last ':' of the authority is not a number in    *)
(* 0..65535.  The authority is the text between the scheme and the first   *)
(* '/', and a number is a run of decimal digits, a leading '+' allowed.    *)
(***************************************************************************)
C40_Authority(u) ==
    LET rest == SubSeq(u, Len(HttpsScheme) + 1, Len(u))
    IN IF Has(rest, "/") THEN SubSeq(rest, 1, Find(rest, "/") - 1) ELSE rest

\* The text after the last ':' of the authority.
C40_PortText(u) ==
    LET authority == C40_Authority(u)
    IN SubSeq(authority, RFind(authority, ":") + 1, Len(authority))

C40_IsPortNumber(text) ==
    LET digits == IF text # <<>> /\ text[1] = "+" THEN Tail(text) ELSE text
    IN /\ digits # <<>>
       /\ \A i \in 1..Len(digits) : DigitValue(digits[i]) >= 0
       /\ DigitsValue(digits) <= U16Max

C40_ParseUrlComponents ==
    applied = "parse_url" =>
        LET u == input[1]
            ok == output[1]
            host == output[2]
            port == output[3]
            path == output[4]
            authority == C40_Authority(u)
            port_given == Has(authority, ":")
            path_given == Len(authority) < Len(u) - Len(HttpsScheme)
        IN IF \/ ~StartsWith(u, HttpsScheme)
              \/ port_given /\ ~C40_IsPortNumber(C40_PortText(u))
           THEN ~ok /\ output[5] = "InvalidUrl"
           ELSE /\ ok
                /\ u = HttpsScheme
                         \o host
                         \o (IF port_given THEN <<":">> \o C40_PortText(u) ELSE <<>>)
                         \o (IF path_given THEN path ELSE <<>>)
                /\ ~Has(host, "/")
                /\ path[1] = "/"
                /\ ~path_given => path = <<"/">>
                /\ port_given => port = ParseU16(C40_PortText(u))
                /\ ~port_given => port = 443 /\ ~Has(host, ":")

C40_Witness ==
    /\ applied = "parse_url"
    /\ input = <<HttpsScheme \o <<"a", ":", "8", ":", "9">>>>
    /\ output = <<TRUE, <<"a", ":", "8">>, 9, <<"/">>, "">>

C40_WitnessDefaults ==
    /\ applied = "parse_url"
    /\ input = <<HttpsScheme \o <<"a">>>>
    /\ output = <<TRUE, <<"a">>, 443, <<"/">>, "">>

C40_WitnessInvalidPort ==
    /\ applied = "parse_url"
    /\ input = <<HttpsScheme \o <<"a", ":", "6", "5", "5", "3", "6">>>>
    /\ output[1] = FALSE
    /\ output[5] = "InvalidUrl"

====
